---- MODULE Spec2Model ----
(***************************************************************************)
(* Model of the GUI pipeline of Excel-AI-project (src/main_gui.py):        *)
(*   run_main_workflow = run_excel_process ; edit_json_with_openai ;       *)
(*                       input_json_convert_csv                            *)
(* Python values are tagged records [t, v]; text is a sequence of          *)
(* one-character strings, so that int(), str.strip() and str.split() are   *)
(* computed character by character as Python computes them.                *)
(***************************************************************************)
EXTENDS Integers, Sequences, FiniteSets, TLC

\* ------------------------------------------------------------------------
\* Bounds of the model
\* ------------------------------------------------------------------------
\* largest number of rows the modelled sheet holds below the header
MaxRows == 2
\* largest number of records handed to input_json_convert_csv on its own
MaxExport == 2
\* largest number of data rows in the registry CSV that main.py reads
MaxRegistry == 2
\* largest number of workflow threads the GUI starts in one session
MaxThreads == 2
\* macros of the VBA project that run_excel_process lists
MaxModules == 1
\* polls of the dialog watcher that fit in its timeout
MaxPolls == 2
\* windows with a matching title that one poll can find
MaxWindows == 2
\* records in the JSON file given to ai_connect.py
MaxItems == 2

\* ------------------------------------------------------------------------
\* Program constants
\* ------------------------------------------------------------------------
\* main_gui.py:41  first data row of the sheet
START_ROW == 2
\* main_gui.py:118 the highlight colour that flags a title
SENTINEL_COLOR == 9895780
\* colour of an unhighlighted cell (Excel's white, cf. vba_simulation.py:412)
WHITE_COLOR == 16777215
\* main_gui.py:348-350 fixed column positions of the export
TITLE_COL == 2
VOLUME_COL == 6
ASIN_COL == 14

\* ------------------------------------------------------------------------
\* Python values
\* ------------------------------------------------------------------------
None == [t |-> "none", v |-> <<>>]
Str(s) == [t |-> "str", v |-> s]
IntV(n) == [t |-> "int", v |-> n]
\* a float w + d/10, as Excel returns for every numeric cell
Float(w, d) == [t |-> "float", v |-> <<w, d>>]
Bool(b) == [t |-> "bool", v |-> b]

Digits == <<"0", "1", "2", "3", "4", "5", "6", "7", "8", "9">>
Whitespace == {" ", "\t", "\r", "\n"}

IsDigit(c) == \E i \in 1..10 : Digits[i] = c
DigitVal(c) == (CHOOSE i \in 1..10 : Digits[i] = c) - 1

\* str.strip(): drop leading and trailing whitespace
RECURSIVE LStrip(_)
LStrip(s) ==
    IF s # <<>> /\ Head(s) \in Whitespace THEN LStrip(Tail(s)) ELSE s

RECURSIVE RStrip(_)
RStrip(s) ==
    IF s # <<>> /\ s[Len(s)] \in Whitespace
    THEN RStrip(SubSeq(s, 1, Len(s) - 1))
    ELSE s

Strip(s) == RStrip(LStrip(s))

\* value of a non-empty sequence of decimal digits
RECURSIVE DigitsValue(_)
DigitsValue(s) ==
    IF s = <<>> THEN 0
    ELSE 10 * DigitsValue(SubSeq(s, 1, Len(s) - 1)) + DigitVal(s[Len(s)])

AllDigits(s) == s # <<>> /\ \A i \in 1..Len(s) : IsDigit(s[i])

\* int(value) of main_gui.py:125.  ok = FALSE stands for the exception
\* (ValueError / TypeError) that the bare except of line 126 catches.
PyInt(value) ==
    CASE value.t = "int" -> [ok |-> TRUE, n |-> value.v]
      [] value.t = "bool" -> [ok |-> TRUE, n |-> IF value.v THEN 1 ELSE 0]
      [] value.t = "float" -> [ok |-> TRUE, n |-> value.v[1]]
      [] value.t = "str" ->
            LET s == Strip(value.v)
                body == IF s # <<>> /\ Head(s) \in {"+", "-"} THEN Tail(s) ELSE s
                sign == IF s # <<>> /\ Head(s) = "-" THEN -1 ELSE 1
            IN  IF AllDigits(body)
                THEN [ok |-> TRUE, n |-> sign * DigitsValue(body)]
                ELSE [ok |-> FALSE, n |-> 0]
      [] OTHER -> [ok |-> FALSE, n |-> 0]

\* `value not in (None, "")` of main_gui.py:113
IsEmptyValue(value) == value = None \/ value = Str(<<>>)

\* ------------------------------------------------------------------------
\* The sheet: Excel rows START_ROW, START_ROW + 1, ... of sheet "タイトル".
\* A row holds the cells of the mapped columns I (title), F (ASIN) and
\* G (volume), the rendered background colour of the title cell, and the
\* cell of a sibling column that OUTPUT_MAPPING does not name (baseline).
\* ------------------------------------------------------------------------
TitleCells == {None, Str(<<>>), Str(<<"A", " ", "2">>)}
AsinCells == {None, Str(<<"B", "0">>)}
VolumeCells == {None, Str(<<"x">>), Str(<<" ", "3">>), Float(2, 5)}
Colors == {SENTINEL_COLOR, WHITE_COLOR}
BaselineCells == {None, Float(3, 0)}

\* The rows the model draws sheets from.  The ASIN cell is left empty only
\* next to an empty volume cell (the one combination in which the loop looks
\* at it: the empty-row test), and the unread baseline cell is filled only
\* in rows that have a title and an ASIN.
SheetRows ==
    { r \in [title : TitleCells, ASIN : AsinCells, volume : VolumeCells,
             color : Colors, baseline : BaselineCells] :
        /\ r.ASIN = None => r.volume = None
        /\ r.baseline # None => (r.ASIN # None /\ r.title \notin {None, Str(<<>>)}) }

\* a row below the used range: every cell empty, no fill colour
BlankRow ==
    [title |-> None, ASIN |-> None, volume |-> None,
     color |-> WHITE_COLOR, baseline |-> None]

Sheets == UNION {[1..n -> SheetRows] : n \in 0..MaxRows}

\* out_sheet.Range(f"{col}{row}") for the Excel row number r
SheetRow(sh, r) ==
    IF r - START_ROW + 1 \in 1..Len(sh) THEN sh[r - START_ROW + 1] ELSE BlankRow

\* NormalizedVolume with the fallback volume 0 in place of 1
NormalizedVolumeDefaultZero(value) ==
    IF value = None THEN IntV(0)
    ELSE IF PyInt(value).ok THEN IntV(PyInt(value).n) ELSE IntV(0)

\* main_gui.py:119-127  the volume stored in the record
NormalizedVolume(value) ==
    IF value = None THEN IntV(1)
    ELSE IF PyInt(value).ok THEN IntV(PyInt(value).n) ELSE IntV(1)

\* ColorFlag comparing against the colour of an unhighlighted cell
ColorFlagWrongCode(color_value) == Bool(color_value = WHITE_COLOR)

\* main_gui.py:116-118  the colour flag stored in the record
ColorFlag(color_value) == Bool(color_value = SENTINEL_COLOR)

\* the baseline cell is empty or differs from the volume just parsed
BaselineEmptyOrDiffers(cells, volume) ==
    \/ IsEmptyValue(cells.baseline)
    \/ ~PyInt(cells.baseline).ok
    \/ PyInt(cells.baseline).n # volume.v

\* ExtractRecord that also flags a row whose title is empty
ExtractRecordEmptyTitleDirty(cells) ==
    [title |-> cells.title,
     color |-> Bool(cells.color = SENTINEL_COLOR \/ IsEmptyValue(cells.title)),
     ASIN |-> cells.ASIN,
     volume |-> NormalizedVolume(cells.volume)]

\* ExtractRecord that also flags a row whose volume cell does not parse
ExtractRecordBadVolumeDirty(cells) ==
    [title |-> cells.title,
     color |-> Bool(cells.color = SENTINEL_COLOR
                    \/ cells.volume = None \/ ~PyInt(cells.volume).ok),
     ASIN |-> cells.ASIN,
     volume |-> NormalizedVolume(cells.volume)]

\* ExtractRecord that also flags a row whose baseline is empty or differs
ExtractRecordBaselineDirty(cells) ==
    [title |-> cells.title,
     color |-> Bool(cells.color = SENTINEL_COLOR
                    \/ BaselineEmptyOrDiffers(cells, NormalizedVolume(cells.volume))),
     ASIN |-> cells.ASIN,
     volume |-> NormalizedVolume(cells.volume)]

\* main_gui.py:107-127  the record built from one sheet row
ExtractRecord(cells) ==
    [title |-> cells.title,
     color |-> ColorFlag(cells.color),
     ASIN |-> cells.ASIN,
     volume |-> NormalizedVolume(cells.volume)]

\* EmptyRow that looks at the title cell only
EmptyRowTitleOnly(cells) == IsEmptyValue(cells.title)

\* main_gui.py:108-114  empty_row after the loop over OUTPUT_MAPPING
EmptyRow(cells) ==
    /\ IsEmptyValue(cells.title)
    /\ IsEmptyValue(cells.ASIN)
    /\ IsEmptyValue(cells.volume)

\* ------------------------------------------------------------------------
\* JSON: json.dump(results) / json.load of the intermediate file
\* ------------------------------------------------------------------------
JsonEncode(value) ==
    CASE value.t = "none" -> [j |-> "null", v |-> <<>>]
      [] value.t = "bool" -> [j |-> IF value.v THEN "true" ELSE "false", v |-> <<>>]
      [] value.t = "int" -> [j |-> "number", v |-> <<value.v>>]
      [] value.t = "float" -> [j |-> "number", v |-> value.v]
      [] value.t = "str" -> [j |-> "string", v |-> value.v]

JsonDecode(jv) ==
    CASE jv.j = "null" -> None
      [] jv.j = "true" -> Bool(TRUE)
      [] jv.j = "false" -> Bool(FALSE)
      [] jv.j = "number" ->
            IF Len(jv.v) = 1 THEN IntV(jv.v[1]) ELSE Float(jv.v[1], jv.v[2])
      [] jv.j = "string" -> Str(jv.v)

JsonDump(records) ==
    [i \in 1..Len(records) |->
        [k \in DOMAIN records[i] |-> JsonEncode(records[i][k])]]

JsonLoad(text) ==
    [i \in 1..Len(text) |->
        [k \in DOMAIN text[i] |-> JsonDecode(text[i][k])]]

\* ------------------------------------------------------------------------
\* The model service and the parsing of its answer
\* ------------------------------------------------------------------------
\* text.split("\n")
RECURSIVE SplitLines(_)
SplitLines(text) ==
    IF \A i \in 1..Len(text) : text[i] # "\n" THEN <<text>>
    ELSE LET k == CHOOSE i \in 1..Len(text) :
                      text[i] = "\n" /\ \A j \in 1..(i - 1) : text[j] # "\n"
         IN  <<SubSeq(text, 1, k - 1)>> \o SplitLines(SubSeq(text, k + 1, Len(text)))

\* main_gui.py:312  [line.strip() for line in text.split("\n") if line.strip()]
ResponseLines(text) ==
    LET raw == SplitLines(text)
        stripped == [i \in 1..Len(raw) |-> Strip(raw[i])]
    IN  SelectSeq(stripped, LAMBDA l : l # <<>>)

\* answers the service may give (response.output_text)
Responses ==
    { <<"A", "\n", "4">>,
      <<" ", "B", " ", "\n", "\n", "0", " ", "\n">>,
      <<"A", "\n", "x">>,
      <<"A">>,
      <<>> }

\* an exception raised by client.responses.create
Raise(name) == [t |-> "raise", v |-> <<name>>]

\* one client.responses.create: the position of the item in data, the text
\* sent as input_text, and the answer (output_text) or the exception raised
Call(i, sent, answer) == [index |-> i, sent |-> sent, answer |-> answer]

\* main_gui.py:294  color == True
IsTrue(value) == value = Bool(TRUE) \/ value = IntV(1) \/ value = Float(1, 0)

\* main_gui.py:291  item.get("color", False)
ItemColor(item) == IF "color" \in DOMAIN item THEN item.color ELSE Bool(FALSE)

\* main_gui.py:294  whether the loop body takes the remote-call branch
NeedsCall(item) == IsTrue(ItemColor(item))

\* VolumeFromLine without the test for "0"
VolumeFromLineUnchecked(item, explanation) == Str(explanation)

\* main_gui.py:316-317  the volume stored for line 2 of the answer
VolumeFromLine(item, explanation) ==
    IF explanation # <<"0">> THEN Str(explanation) ELSE item.volume

\* main_gui.py:312-317  new_item after a well-formed answer
ApplyResponse(item, lines) ==
    [item EXCEPT !.title = Str(lines[1]),
                 !.volume = VolumeFromLine(item, lines[2])]

\* main_gui.py:313-314  lines[0] and lines[1] both exist
WellFormed(lines) == Len(lines) >= 2

\* ------------------------------------------------------------------------
\* The export: input_json_convert_csv
\* ------------------------------------------------------------------------
\* decimal text of a natural number, as str(n) writes it
RECURSIVE NatText(_)
NatText(n) ==
    IF n < 10 THEN <<Digits[n + 1]>>
    ELSE NatText(n \div 10) \o <<Digits[(n % 10) + 1]>>

\* the text csv.writer puts in a field for a Python value
CsvField(value) ==
    CASE value.t = "none" -> <<>>
      [] value.t = "str" -> value.v
      [] value.t = "int" ->
            IF value.v < 0 THEN <<"-">> \o NatText(-value.v) ELSE NatText(value.v)
      [] value.t = "float" -> NatText(value.v[1]) \o <<".">> \o NatText(value.v[2])
      [] value.t = "bool" -> IF value.v THEN <<"T", "r", "u", "e">>
                             ELSE <<"F", "a", "l", "s", "e">>

\* item.get(key, "")
ItemGet(item, key) == IF key \in DOMAIN item THEN item[key] ELSE Str(<<>>)

\* ExportRow writing the volume one column to the left (F instead of G)
ExportRowVolumeAtF(item, width) ==
    [c \in 1..width |->
        IF c = ASIN_COL + 1 THEN CsvField(ItemGet(item, "ASIN"))
        ELSE IF c = VOLUME_COL THEN CsvField(ItemGet(item, "volume"))
        ELSE IF c = TITLE_COL + 1 THEN CsvField(ItemGet(item, "title"))
        ELSE <<>>]

\* main_gui.py:347-350  row[2], row[6], row[14] on a row of `width` blanks
\* (Python index c is sequence index c + 1)
ExportRow(item, width) ==
    [c \in 1..width |->
        IF c = ASIN_COL + 1 THEN CsvField(ItemGet(item, "ASIN"))
        ELSE IF c = VOLUME_COL + 1 THEN CsvField(ItemGet(item, "volume"))
        ELSE IF c = TITLE_COL + 1 THEN CsvField(ItemGet(item, "title"))
        ELSE <<>>]

\* ExportData that keeps the rows already in the file and adds the new ones
ExportDataAppends(json_data, rows) ==
    rows \o [i \in 1..Len(json_data) |-> ExportRow(json_data[i], Len(rows[1]))]

\* ExportData that overwrites the owned columns of the rows already there
ExportDataMerging(json_data, rows) ==
    SubSeq(rows, 1, 1) \o
    [i \in 1..Len(json_data) |->
        IF i + 1 <= Len(rows) /\ Len(rows[i + 1]) = Len(rows[1])
        THEN [c \in 1..Len(rows[1]) |->
                IF c \in {TITLE_COL + 1, VOLUME_COL + 1, ASIN_COL + 1}
                THEN ExportRow(json_data[i], Len(rows[1]))[c]
                ELSE rows[i + 1][c]]
        ELSE ExportRow(json_data[i], Len(rows[1]))]

\* main_gui.py:345-352  real_data: the header row, then one row per record
ExportData(json_data, rows) ==
    SubSeq(rows, 1, 1) \o
    [i \in 1..Len(json_data) |-> ExportRow(json_data[i], Len(rows[1]))]

\* main_gui.py:345-350  rows[0] exists and is wide enough for row[14]
ExportFits(rows) == Len(rows) >= 1 /\ Len(rows[1]) > ASIN_COL

\* the CSV template on disk before the run: a header wide enough for
\* row[14] and one earlier row
CsvHeader == [c \in 1..(ASIN_COL + 1) |-> <<"h">>]
CsvOldRow == [c \in 1..(ASIN_COL + 1) |-> <<"o">>]
CsvBefore == <<CsvHeader, CsvOldRow>>

\* "#" stands for a byte sequence in the file that is not valid cp932,
\* "^" for a character that cp932 cannot encode (as the e-acute of "Cafe")
Cp932Invalid == "#"
Cp932Unencodable == "^"

\* main_gui.py:342-344  open(csv_path, "r", encoding="cp932",
\* errors="ignore") and csv.reader: bytes that do not decode are dropped
DecodeRows(file) ==
    [r \in 1..Len(file) |->
        [c \in 1..Len(file[r]) |->
            SelectSeq(file[r][c], LAMBDA ch : ch # Cp932Invalid)]]

\* main_gui.py:354-356  the strict cp932 encoder accepts the row
RowEncodes(cells) ==
    \A c \in 1..Len(cells) : \A k \in 1..Len(cells[c]) :
        cells[c][k] # Cp932Unencodable

\* main_gui.py:347-356  the row built from `item` encodes: its other cells
\* are blank, so it does exactly when its three fields do
ItemEncodes(item) ==
    \A key \in {"title", "volume", "ASIN"} :
        LET text == CsvField(ItemGet(item, key))
        IN  \A k \in 1..Len(text) : text[k] # Cp932Unencodable

\* main_gui.py:354-356  writer.writerows on a file opened with "w": the rows
\* in front of the first one that does not encode reach the disk
WrittenRows(real_data) ==
    IF \A r \in 1..Len(real_data) : RowEncodes(real_data[r]) THEN real_data
    ELSE LET bad == CHOOSE r \in 1..Len(real_data) :
                        /\ ~RowEncodes(real_data[r])
                        /\ \A q \in 1..(r - 1) : RowEncodes(real_data[q])
         IN  SubSeq(real_data, 1, bad - 1)

\* CSV files the export is tried on: the template above, one whose header
\* holds an undecodable byte, a header alone, a file three columns wide,
\* and an empty file
CsvDirtyHeader == [c \in 1..(ASIN_COL + 1) |->
                      IF c = 1 THEN <<"h", Cp932Invalid>> ELSE <<"h">>]
CsvNarrowHeader == [c \in 1..(TITLE_COL + 1) |-> <<"h">>]
CsvNarrowRow == [c \in 1..(TITLE_COL + 1) |-> <<"o">>]
CsvTemplates ==
    { CsvBefore,
      <<CsvDirtyHeader, CsvOldRow>>,
      <<CsvHeader>>,
      <<CsvNarrowHeader, CsvNarrowRow>>,
      <<>> }

\* records input_json_convert_csv is tried on: with and without a title,
\* a volume from the sheet or from the service, a title that cp932 cannot
\* encode, and records lacking the "volume" or the "ASIN" key
ExportRecords ==
    [title : {None, Str(<<"A">>), Str(<<"C", Cp932Unencodable>>)},
     volume : {IntV(1), Str(<<"4">>)},
     ASIN : {None, Str(<<"B", "0">>)},
     color : {Bool(TRUE)}]
    \cup [title : {Str(<<"A">>)}, ASIN : {Str(<<"B", "0">>)}]
    \cup [title : {Str(<<"A">>)}, volume : {IntV(1)}]

ExportInputs == UNION {[1..n -> ExportRecords] : n \in 0..MaxExport}

\* ------------------------------------------------------------------------
\* State
\* ------------------------------------------------------------------------
VARIABLES
    sheet,        \* the rows of the workbook's sheet (read only)
    pc,           \* position of the workflow thread in run_main_workflow
    row,          \* run_excel_process: Excel row number being read
    results,      \* run_excel_process: records extracted so far
    jsonFile,     \* content of the intermediate JSON file
    data,         \* edit_json_with_openai: the loaded records
    idx,          \* edit_json_with_openai: position of the for loop in data
    edited_data,  \* edit_json_with_openai: records produced so far
    calls,        \* remote calls issued so far, each with what came back
    raised,       \* exception that left the current function, or "none"
    csvFile,      \* content of the CSV file on disk
    exports,      \* number of times input_json_convert_csv was entered
    report,       \* what run_main_workflow reported: none, completed, error
    env,          \* what the run finds around it: OPENAI_API_KEY, csv_path
                  \* and the CSV content when the export was entered
    cli,          \* main.py's run: the registry CSV and the reader's progress
    app,          \* the MainApp object: buttons, timer flag, threads, window
    xl,           \* vba_simulation.run_excel_process: Excel, the macro
                  \* attempts and the dialog watcher
    ai            \* ai_connect.py's run: the model answering and the pass

\* whether the environment holds a non-empty API key
OPENAI_API_KEY == env.OPENAI_API_KEY
\* whether find_file_by_ext found a CSV file to export to
csv_path == env.csv_path
\* content of the CSV file when the export was entered
csvAtEntry == env.csvAtEntry

\* bytes of the registry CSV: rows of cells of byte groups
registry_csv == cli.registry_csv
\* the registry CSV is "ok", "missing" or "unreadable"
file_state == cli.file_state
\* who calls read_public_csv: "main" (main.py) or "direct"
entry == cli.entry
\* position of the registry reader / CLI
rpc == cli.rpc
\* encodings read_public_csv opened the file with, in order
tried == cli.tried
\* rows returned by read_public_csv
csv_rows == cli.csv_rows
\* what filter_by_binding returned
filtered == cli.filtered
\* exception that left read_public_csv, or "none"
reg_raised == cli.reg_raised
\* content of ./runMacro/target_macro_input.json
saved == cli.saved
\* what main() returned, -1 while it has not
exit_code == cli.exit_code

\* MainApp.start_btn and MainApp.stop_btn state: "normal" or "disabled"
start_btn == app.start_btn
stop_btn == app.stop_btn
\* MainApp._timer_running
timer_running == app.timer_running
\* position of every workflow thread started, in start order
threads == app.threads
\* file writes by the workflow threads: who wrote which file, and whether
\* the timer was running then
writes == app.writes
\* the main window: "open" or "destroyed"
window == app.window

\* what no step of the workflow thread changes before it ends
frame == <<env, cli, app, xl, ai>>

\* vba_simulation.py:160  the dialog watcher before close_msgbox is called
NoWatcher ==
    [state |-> "none", polls |-> 0, dialog_handled |-> FALSE,
     button_clicked |-> FALSE, found |-> 0, handled |-> 0,
     result |-> "none"]

\* vba_simulation.py's run_excel_process has not been called
MacroIdle ==
    xl = [pc |-> "idle", excel |-> "none", wb |-> "none",
          macro_attempts |-> <<>>, k |-> 1, via |-> "excel", runs |-> <<>>,
          macro_called |-> FALSE, ontime |-> "none", dialog |-> "none",
          dialog_thread |-> NoWatcher, joined |-> "none",
          json_written |-> FALSE, exc |-> "none", close_called |-> FALSE,
          quit_called |-> FALSE]

\* ai_connect.py is not running
StubIdle == ai = [stub |-> "none", pass |-> 0]

\* the CLI of main.py is not running
RegistryIdle ==
    cli = [registry_csv |-> <<>>, file_state |-> "missing", entry |-> "none",
           rpc |-> "idle", tried |-> <<>>, csv_rows |-> <<>>,
           filtered |-> <<>>, reg_raised |-> "none", saved |-> <<>>,
           exit_code |-> -1]

\* main_gui.py:397-405  the state start_workflow leaves for the run that the
\* pipeline variables follow step by step
GuiRunning ==
    app = [start_btn |-> "disabled", stop_btn |-> "normal",
           timer_running |-> TRUE, threads |-> <<>>, writes |-> <<>>,
           window |-> "open"]

vars == <<sheet, pc, row, results, jsonFile, data, idx, edited_data, calls,
          raised, csvFile, exports, report, frame>>

Init ==
    /\ sheet \in Sheets
    /\ pc = "extract"
    /\ row = START_ROW
    /\ results = <<>>
    /\ jsonFile = <<>>
    /\ data = <<>>
    /\ idx = 1
    /\ edited_data = <<>>
    /\ calls = <<>>
    /\ raised = "none"
    /\ csvFile = CsvBefore
    /\ exports = 0
    /\ report = "none"
    /\ env \in [OPENAI_API_KEY : BOOLEAN, csv_path : {TRUE},
                 csvAtEntry : {CsvBefore}]
    /\ RegistryIdle
    /\ GuiRunning
    /\ MacroIdle
    /\ StubIdle

\* ------------------------------------------------------------------------
\* run_excel_process (main_gui.py:104-135)
\* ------------------------------------------------------------------------
\* one pass of the while loop over a row that is not empty
ExtractRow ==
    /\ pc = "extract"
    /\ ~EmptyRow(SheetRow(sheet, row))
    /\ results' = Append(results, ExtractRecord(SheetRow(sheet, row)))
    /\ row' = row + 1
    /\ UNCHANGED <<sheet, pc, jsonFile, data, idx, edited_data, calls, raised,
                   csvFile, exports, report>>
    /\ UNCHANGED frame

\* the pass that meets an empty row: break, json.dump, return results
ExtractEnd ==
    /\ pc = "extract"
    /\ EmptyRow(SheetRow(sheet, row))
    /\ jsonFile' = JsonDump(results)
    /\ pc' = "edit"
    /\ UNCHANGED <<sheet, row, results, data, idx, edited_data, calls, raised,
                   csvFile, exports, report>>
    /\ UNCHANGED frame

\* ------------------------------------------------------------------------
\* edit_json_with_openai (main_gui.py:153-333)
\* ------------------------------------------------------------------------
\* main_gui.py:163-171  no api_key argument and no OPENAI_API_KEY: ValueError
EditNoKey ==
    /\ pc = "edit"
    /\ ~OPENAI_API_KEY
    /\ raised' = "ValueError"
    /\ pc' = "except"
    /\ UNCHANGED <<sheet, row, results, jsonFile, data, idx, edited_data, calls,
                   csvFile, exports, report>>
    /\ UNCHANGED frame

\* main_gui.py:163-288  the key is there: json.load of the intermediate
\* file, edited_data = []
EditLoad ==
    /\ pc = "edit"
    /\ OPENAI_API_KEY
    /\ data' = JsonLoad(jsonFile)
    /\ idx' = 1
    /\ edited_data' = <<>>
    /\ pc' = "loop"
    /\ UNCHANGED <<sheet, row, results, jsonFile, calls, raised, csvFile,
                   exports, report>>
    /\ UNCHANGED frame

\* main_gui.py:318-320  an item whose colour flag is not true
EditPassThrough ==
    /\ pc = "loop"
    /\ idx <= Len(data)
    /\ ~NeedsCall(data[idx])
    /\ edited_data' = Append(edited_data, [data[idx] EXCEPT !.title = data[idx].title])
    /\ idx' = idx + 1
    /\ UNCHANGED <<sheet, pc, row, results, jsonFile, data, calls, raised,
                   csvFile, exports, report>>
    /\ UNCHANGED frame

\* main_gui.py:294-317,320  remote call answered with at least two lines
EditCall ==
    /\ pc = "loop"
    /\ idx <= Len(data)
    /\ NeedsCall(data[idx])
    /\ \E text \in Responses :
         /\ WellFormed(ResponseLines(text))
         /\ edited_data' =
                Append(edited_data, ApplyResponse(data[idx], ResponseLines(text)))
         /\ calls' = Append(calls, Call(idx, data[idx].title, Str(text)))
    /\ idx' = idx + 1
    /\ UNCHANGED <<sheet, pc, row, results, jsonFile, data, raised, csvFile,
                   exports, report>>
    /\ UNCHANGED frame

\* main_gui.py:313-314  remote call answered with fewer than two lines:
\* lines[0] or lines[1] raises IndexError, which no except clause of
\* lines 321-331 names, so it leaves edit_json_with_openai
EditMalformed ==
    /\ pc = "loop"
    /\ idx <= Len(data)
    /\ NeedsCall(data[idx])
    /\ \E text \in Responses :
         /\ ~WellFormed(ResponseLines(text))
         /\ calls' = Append(calls, Call(idx, data[idx].title, Str(text)))
    /\ raised' = "IndexError"
    /\ pc' = "except"
    /\ UNCHANGED <<sheet, row, results, jsonFile, data, idx, edited_data,
                   csvFile, exports, report>>
    /\ UNCHANGED frame

\* main_gui.py:326-328  AuthenticationError is re-raised as ValueError
EditAuthError ==
    /\ pc = "loop"
    /\ idx <= Len(data)
    /\ NeedsCall(data[idx])
    /\ calls' = Append(calls, Call(idx, data[idx].title, Raise("AuthenticationError")))
    /\ raised' = "ValueError"
    /\ pc' = "except"
    /\ UNCHANGED <<sheet, row, results, jsonFile, data, idx, edited_data,
                   csvFile, exports, report>>
    /\ UNCHANGED frame

\* EditApiError that logs the failure and goes on with the next item
EditApiErrorSkips ==
    /\ pc = "loop"
    /\ idx <= Len(data)
    /\ NeedsCall(data[idx])
    /\ calls' = Append(calls, Call(idx, data[idx].title, Raise("APIError")))
    /\ edited_data' = Append(edited_data, data[idx])
    /\ idx' = idx + 1
    /\ UNCHANGED <<sheet, pc, row, results, jsonFile, data, raised, csvFile,
                   exports, report>>
    /\ UNCHANGED frame

\* main_gui.py:329-331  any other APIError is re-raised as RuntimeError
EditApiError ==
    /\ pc = "loop"
    /\ idx <= Len(data)
    /\ NeedsCall(data[idx])
    /\ calls' = Append(calls, Call(idx, data[idx].title, Raise("APIError")))
    /\ raised' = "RuntimeError"
    /\ pc' = "except"
    /\ UNCHANGED <<sheet, row, results, jsonFile, data, idx, edited_data,
                   csvFile, exports, report>>
    /\ UNCHANGED frame

\* EditReturn that may leave the loop before the last item
EditReturnEarly ==
    /\ pc = "loop"
    /\ pc' = "export"
    /\ UNCHANGED <<sheet, row, results, jsonFile, data, idx, edited_data, calls,
                   raised, csvFile, exports, report>>
    /\ UNCHANGED frame

\* main_gui.py:333  the loop is over: return edited_data
EditReturn ==
    /\ pc = "loop"
    /\ idx > Len(data)
    /\ pc' = "export"
    /\ UNCHANGED <<sheet, row, results, jsonFile, data, idx, edited_data, calls,
                   raised, csvFile, exports, report>>
    /\ UNCHANGED frame

\* ------------------------------------------------------------------------
\* input_json_convert_csv (main_gui.py:335-360)
\* ------------------------------------------------------------------------
\* main_gui.py:338-340  nothing to export: return without touching the file
ExportNothing ==
    /\ pc = "export"
    /\ edited_data = <<>>
    /\ exports' = exports + 1
    /\ pc' = "finish"
    /\ UNCHANGED <<sheet, row, results, jsonFile, data, idx, edited_data, calls,
                   raised, csvFile, report>>
    /\ UNCHANGED frame

\* main_gui.py:341-357  read the template, build real_data, write the file;
\* the header came out of the cp932 decoder and every record's row encodes,
\* so writerows puts all of real_data on the disk
ExportWrite ==
    /\ pc = "export"
    /\ edited_data # <<>>
    /\ csv_path
    /\ LET rows == DecodeRows(csvFile)
           real_data == ExportData(edited_data, rows)
       IN  /\ ExportFits(rows)
           /\ \A i \in 1..Len(edited_data) : ItemEncodes(edited_data[i])
           /\ csvFile' = real_data
    /\ exports' = exports + 1
    /\ pc' = "finish"
    /\ UNCHANGED <<sheet, row, results, jsonFile, data, idx, edited_data, calls,
                   raised, report>>
    /\ UNCHANGED frame

\* main_gui.py:342,358-360  there is no file to open: RuntimeError
ExportOpenFail ==
    /\ pc = "export"
    /\ edited_data # <<>>
    /\ ~csv_path
    /\ exports' = exports + 1
    /\ raised' = "RuntimeError"
    /\ pc' = "except"
    /\ UNCHANGED <<sheet, row, results, jsonFile, data, idx, edited_data, calls,
                   csvFile, report>>
    /\ UNCHANGED frame

\* main_gui.py:345-350,358-360  rows[0] or row[14] is out of range: the
\* IndexError is re-raised as RuntimeError before the file is opened to write
ExportFail ==
    /\ pc = "export"
    /\ edited_data # <<>>
    /\ csv_path
    /\ ~ExportFits(DecodeRows(csvFile))
    /\ exports' = exports + 1
    /\ raised' = "RuntimeError"
    /\ pc' = "except"
    /\ UNCHANGED <<sheet, row, results, jsonFile, data, idx, edited_data, calls,
                   csvFile, report>>
    /\ UNCHANGED frame

\* main_gui.py:354-360  a row does not encode: UnicodeEncodeError inside
\* writerows, after open(csv_path, "w") has emptied the file; what was
\* written so far is flushed when the with block closes the file
ExportWriteFail ==
    /\ pc = "export"
    /\ edited_data # <<>>
    /\ csv_path
    /\ LET rows == DecodeRows(csvFile)
           real_data == ExportData(edited_data, rows)
       IN  /\ ExportFits(rows)
           /\ \E i \in 1..Len(edited_data) : ~ItemEncodes(edited_data[i])
           /\ csvFile' = WrittenRows(real_data)
    /\ exports' = exports + 1
    /\ raised' = "RuntimeError"
    /\ pc' = "except"
    /\ UNCHANGED <<sheet, row, results, jsonFile, data, idx, edited_data, calls,
                   report>>
    /\ UNCHANGED frame

\* ------------------------------------------------------------------------
\* run_main_workflow (main_gui.py:422-445)
\* ------------------------------------------------------------------------
\* main_gui.py:435-439
WorkflowComplete ==
    /\ pc = "finish"
    /\ app' = [app EXCEPT !.timer_running = FALSE, !.stop_btn = "disabled",
                          !.start_btn = "normal"]
    /\ report' = "completed"
    /\ pc' = "done"
    /\ UNCHANGED <<sheet, row, results, jsonFile, data, idx, edited_data, calls,
                   raised, csvFile, exports>>
    /\ UNCHANGED <<env, cli, xl, ai>>

\* main_gui.py:440-445  except Exception
WorkflowError ==
    /\ pc = "except"
    /\ app' = [app EXCEPT !.timer_running = FALSE, !.stop_btn = "disabled",
                          !.start_btn = "normal"]
    /\ report' = "error"
    /\ pc' = "done"
    /\ UNCHANGED <<sheet, row, results, jsonFile, data, idx, edited_data, calls,
                   raised, csvFile, exports>>
    /\ UNCHANGED <<env, cli, xl, ai>>

Next ==
    \/ ExtractRow
    \/ ExtractEnd
    \/ EditNoKey
    \/ EditLoad
    \/ EditPassThrough
    \/ EditCall
    \/ EditMalformed
    \/ EditAuthError
    \/ EditApiError
    \/ EditReturn
    \/ ExportNothing
    \/ ExportWrite
    \/ WorkflowComplete
    \/ WorkflowError

Spec == Init /\ [][Next]_vars

\* ------------------------------------------------------------------------
\* A whole run of run_main_workflow in which every step can fail
\* ------------------------------------------------------------------------
\* main_gui.py:72-95,128-139  run_excel_process raises: Excel or the workbook
\* cannot be opened, no sheet of either name, a cell cannot be read, or the
\* JSON file cannot be written; nothing is persisted
ExtractFail ==
    /\ pc = "extract"
    /\ raised' = "Exception"
    /\ pc' = "except"
    /\ UNCHANGED <<sheet, row, results, jsonFile, data, idx, edited_data, calls,
                   csvFile, exports, report>>
    /\ UNCHANGED frame

\* rows of the sheets of the whole run: a title, an ASIN and a volume, with
\* and without the fill colour
RunRows ==
    { r \in SheetRows :
        /\ r.title = Str(<<"A", " ", "2">>)
        /\ r.ASIN = Str(<<"B", "0">>)
        /\ r.volume = Float(2, 5)
        /\ r.baseline = None }

\* main_gui.py:397-405  the state start_workflow leaves for a run whose
\* workbook, key and CSV file may each be missing or unusable
InitRun ==
    /\ sheet \in UNION {[1..n -> RunRows] : n \in 0..MaxRows}
    /\ pc = "extract"
    /\ row = START_ROW
    /\ results = <<>>
    /\ jsonFile = <<>>
    /\ data = <<>>
    /\ idx = 1
    /\ edited_data = <<>>
    /\ calls = <<>>
    /\ raised = "none"
    /\ csvFile \in {CsvBefore, <<>>}
    /\ exports = 0
    /\ report = "none"
    /\ env \in [OPENAI_API_KEY : BOOLEAN, csv_path : BOOLEAN,
                 csvAtEntry : {csvFile}]
    /\ RegistryIdle
    /\ GuiRunning
    /\ MacroIdle
    /\ StubIdle

NextRun ==
    \/ ExtractRow
    \/ ExtractEnd
    \/ ExtractFail
    \/ EditNoKey
    \/ EditLoad
    \/ EditPassThrough
    \/ EditCall
    \/ EditMalformed
    \/ EditAuthError
    \/ EditApiError
    \/ EditReturn
    \/ ExportNothing
    \/ ExportWrite
    \/ ExportOpenFail
    \/ ExportFail
    \/ WorkflowComplete
    \/ WorkflowError

SpecRun == InitRun /\ [][NextRun]_vars

\* ------------------------------------------------------------------------
\* input_json_convert_csv on its own (as ai_connect.py:236-242 calls it):
\* any list of records against any of the CSV files
\* ------------------------------------------------------------------------
InitExport ==
    /\ sheet = <<>>
    /\ pc = "export"
    /\ row = START_ROW
    /\ results = <<>>
    /\ jsonFile = <<>>
    /\ data = <<>>
    /\ idx = 1
    /\ edited_data \in ExportInputs
    /\ calls = <<>>
    /\ raised = "none"
    /\ csvFile \in CsvTemplates
    /\ exports = 0
    /\ report = "none"
    /\ env \in [OPENAI_API_KEY : {TRUE}, csv_path : BOOLEAN,
                 csvAtEntry : {csvFile}]
    /\ RegistryIdle
    /\ GuiRunning
    /\ MacroIdle
    /\ StubIdle

NextExport ==
    \/ ExportNothing
    \/ ExportWrite
    \/ ExportOpenFail
    \/ ExportFail
    \/ ExportWriteFail
    \/ WorkflowComplete
    \/ WorkflowError

SpecExport == InitExport /\ [][NextExport]_vars

\* ------------------------------------------------------------------------
\* Registry Reader and Row Filter (init_csv.py, main.py)
\* ------------------------------------------------------------------------
\* DEFAULT_ENCODINGS with the Japanese code pages in front
EncodingsCp932First ==
    <<"cp932", "shift_jis", "utf-8-sig", "utf-8">>

\* init_csv.py:22-27
DEFAULT_ENCODINGS ==
    <<"utf-8-sig", "utf-8", "cp932", "shift_jis">>

\* init_csv.py:21  the column name, written here by its reading
BINDING_COLUMN == <<"soutei", "seihon">>

\* init_csv.py:63  the default allow-list (the source repeats one value),
\* each value written by its reading
BINDINGS ==
    << <<"Kindle", "ban">>, <<"komikku">>, <<"zasshi">>, <<"oogatabon">>,
       <<"tankoubon">>, <<"tankoubon">>, <<"sofutokabaa">> >>

\* A byte group of the file: the bytes that spell the character(s) `c` in
\* the encoding family `k`:
\*   ascii  plain ASCII, the same bytes in all four encodings
\*   bom    EF BB BF at the start of the file
\*   utf8   a kanji in UTF-8 (E7 89 88): not valid cp932 / shift_jis
\*   latin  an accented letter in UTF-8 (C3 A9): valid cp932 / shift_jis too,
\*          where it reads as two half-width katakana
\*   sjis   a kanji in Shift_JIS (94 C5): not valid UTF-8
\*   nec    an NEC special character (87 40): valid cp932 only
\*   broken a lead byte without its trail byte (81): valid nowhere
Bytes(k, c) == [k |-> k, c |-> c]

\* codecs: whether the decoder of `encoding` accepts the byte group
Decodes(unit, encoding) ==
    CASE unit.k = "ascii" -> TRUE
      [] unit.k = "bom" -> encoding \in {"utf-8-sig", "utf-8"}
      [] unit.k = "utf8" -> encoding \in {"utf-8-sig", "utf-8"}
      [] unit.k = "latin" -> TRUE
      [] unit.k = "sjis" -> encoding \in {"cp932", "shift_jis"}
      [] unit.k = "nec" -> encoding = "cp932"
      [] unit.k = "broken" -> FALSE

\* codecs: the characters the decoder of `encoding` makes of the byte group
DecodeUnit(unit, encoding) ==
    CASE unit.k = "bom" ->
            IF encoding = "utf-8-sig" THEN <<>> ELSE <<"U+FEFF">>
      [] unit.k = "latin" ->
            IF encoding \in {"utf-8-sig", "utf-8"} THEN <<unit.c>>
            ELSE <<"U+FF83", "U+FF69">>
      [] OTHER -> <<unit.c>>

RECURSIVE DecodeCell(_, _)
DecodeCell(cell, encoding) ==
    IF cell = <<>> THEN <<>>
    ELSE DecodeUnit(Head(cell), encoding) \o DecodeCell(Tail(cell), encoding)

\* init_csv.py:46-48  reading the whole file raises no UnicodeDecodeError
FileDecodes(file, encoding) ==
    \A r \in 1..Len(file) : \A c \in 1..Len(file[r]) : \A k \in 1..Len(file[r][c]) :
        Decodes(file[r][c][k], encoding)

\* init_csv.py:48  list(csv.DictReader(fh)): the first row names the fields,
\* every later row is a mapping from those names to its cells, None where
\* the row is too short
DictReader(file, encoding) ==
    IF Len(file) = 0 THEN <<>>
    ELSE LET names == [c \in 1..Len(file[1]) |-> DecodeCell(file[1][c], encoding)]
         IN  [i \in 1..(Len(file) - 1) |->
                [name \in {names[c] : c \in 1..Len(names)} |->
                    LET c == CHOOSE c \in 1..Len(names) :
                                /\ names[c] = name
                                /\ \A d \in (c + 1)..Len(names) : names[d] # name
                    IN  IF c <= Len(file[i + 1])
                        THEN Str(DecodeCell(file[i + 1][c], encoding))
                        ELSE None]]

\* init_csv.py:69  row.get(column)
RowGet(r, column) == IF column \in DOMAIN r THEN r[column] ELSE None

\* init_csv.py:69  value in bindings
InBindings(value, bindings) ==
    \E b \in 1..Len(bindings) : value = Str(bindings[b])

\* a filter that also lets through the rows that have no binding value
FilterKeepsMissing(rows, bindings, column) ==
    SelectSeq(rows, LAMBDA r : \/ InBindings(RowGet(r, column), bindings)
                               \/ RowGet(r, column) = None)

\* init_csv.py:61-71
filter_by_binding(rows, bindings, column) ==
    SelectSeq(rows, LAMBDA r : InBindings(RowGet(r, column), bindings))

\* the registry files of the model: a header with or without the binding
\* column, stored as cp932 or as UTF-8 with a byte-order mark, and data
\* rows whose binding cell is in the list, outside it, missing, or bytes of
\* another encoding
NameCell == <<Bytes("ascii", "name")>>
BindingCellSjis == <<Bytes("sjis", "soutei"), Bytes("sjis", "seihon")>>
BindingCellUtf8 == <<Bytes("utf8", "soutei"), Bytes("utf8", "seihon")>>
RegistryHeaders ==
    { <<NameCell, BindingCellSjis>>,
      <<<<Bytes("bom", "")>> \o NameCell, BindingCellUtf8>>,
      <<NameCell, <<Bytes("ascii", "kind")>>>> }

RegistryTitles == { <<Bytes("ascii", "t1")>>, <<Bytes("ascii", "t2")>> }

RegistryBindings ==
    { <<Bytes("ascii", "Kindle"), Bytes("sjis", "ban")>>,
      <<Bytes("ascii", "Kindle"), Bytes("utf8", "ban")>>,
      <<Bytes("sjis", "bunko")>>,
      <<Bytes("latin", "e-acute")>>,
      <<Bytes("nec", "maru-ichi")>>,
      <<Bytes("broken", "")>> }

RegistryRows ==
    {<<t, b>> : t \in RegistryTitles, b \in RegistryBindings}
    \cup {<<t>> : t \in RegistryTitles}

RegistryFiles ==
    {<<>>} \cup
    {<<h>> \o body : h \in RegistryHeaders,
                     body \in UNION {[1..n -> RegistryRows] : n \in 0..MaxRegistry}}

\* the workflow of main_gui.py is not running
PipelineIdle ==
    /\ sheet = <<>>
    /\ pc = "done"
    /\ row = START_ROW
    /\ results = <<>>
    /\ jsonFile = <<>>
    /\ data = <<>>
    /\ idx = 1
    /\ edited_data = <<>>
    /\ calls = <<>>
    /\ raised = "none"
    /\ csvFile = CsvBefore
    /\ exports = 0
    /\ report = "none"
    /\ env = [OPENAI_API_KEY |-> TRUE, csv_path |-> TRUE,
              csvAtEntry |-> CsvBefore]
    /\ MacroIdle
    /\ StubIdle

pipeline == <<sheet, pc, row, results, jsonFile, data, idx, edited_data, calls,
              raised, csvFile, exports, report, env, xl, ai>>

\* main_gui.py:364-389  MainApp.__init__
GuiInit ==
    app = [start_btn |-> "normal", stop_btn |-> "disabled",
           timer_running |-> FALSE, threads |-> <<>>, writes |-> <<>>,
           window |-> "open"]

InitRegistry ==
    /\ PipelineIdle
    /\ GuiInit
    /\ cli \in [registry_csv : RegistryFiles,
                file_state : {"ok", "missing", "unreadable"},
                entry : {"main", "direct"},
                rpc : {"main", "read"},
                tried : {<<>>}, csv_rows : {<<>>}, filtered : {<<>>},
                reg_raised : {"none"}, saved : {<<>>}, exit_code : {-1}]
    /\ rpc = IF entry = "main" THEN "main" ELSE "read"

\* main.py:42-53  the target is not among the CSV files of public/
MainNotFound ==
    /\ rpc = "main"
    /\ file_state = "missing"
    /\ cli' = [cli EXCEPT !.exit_code = 1, !.rpc = "exit"]
    /\ UNCHANGED <<pipeline, app>>

\* main.py:55-56  call read_public_csv(target)
MainRead ==
    /\ rpc = "main"
    /\ file_state # "missing"
    /\ cli' = [cli EXCEPT !.rpc = "read"]
    /\ UNCHANGED <<pipeline, app>>

\* init_csv.py:39-42  not a file: FileNotFoundError
ReadNotFound ==
    /\ rpc = "read"
    /\ file_state = "missing"
    /\ cli' = [cli EXCEPT !.reg_raised = "FileNotFoundError", !.rpc = "raised"]
    /\ UNCHANGED <<pipeline, app>>

\* init_csv.py:44-54  one turn of the for loop over the encodings
TryEncoding(encodings) ==
    /\ rpc = "read"
    /\ file_state # "missing"
    /\ Len(tried) < Len(encodings)
    /\ LET encoding == encodings[Len(tried) + 1] IN
        cli' =
            IF file_state = "unreadable"
            THEN [cli EXCEPT !.tried = Append(tried, encoding),
                             !.reg_raised = "CsvReadError",
                             !.rpc = "raised"]
            ELSE IF FileDecodes(registry_csv, encoding)
            THEN [cli EXCEPT !.tried = Append(tried, encoding),
                             !.csv_rows = DictReader(registry_csv, encoding),
                             !.rpc = "returned"]
            ELSE [cli EXCEPT !.tried = Append(tried, encoding)]
    /\ UNCHANGED <<pipeline, app>>

\* init_csv.py:56-59  the loop ran out of encodings: CsvReadError
ReadUndecodable ==
    /\ rpc = "read"
    /\ file_state # "missing"
    /\ Len(tried) = Len(DEFAULT_ENCODINGS)
    /\ cli' = [cli EXCEPT !.reg_raised = "CsvReadError", !.rpc = "raised"]
    /\ UNCHANGED <<pipeline, app>>

\* main.py:57-59  main logs the exception and returns 1
MainReadFailed ==
    /\ rpc = "raised"
    /\ entry = "main"
    /\ cli' = [cli EXCEPT !.exit_code = 1, !.rpc = "exit"]
    /\ UNCHANGED <<pipeline, app>>

\* main.py:61  filtered = filter_by_binding(rows)
MainFilter ==
    /\ rpc = "returned"
    /\ entry = "main"
    /\ cli' = [cli EXCEPT
                 !.filtered = filter_by_binding(csv_rows, BINDINGS, BINDING_COLUMN),
                 !.rpc = "save"]
    /\ UNCHANGED <<pipeline, app>>

\* main.py:66-85  the filtered rows are dumped as JSON and main returns 0
MainSave ==
    /\ rpc = "save"
    /\ cli' = [cli EXCEPT !.saved = filtered, !.exit_code = 0, !.rpc = "exit"]
    /\ UNCHANGED <<pipeline, app>>

NextRegistry ==
    \/ MainNotFound
    \/ MainRead
    \/ ReadNotFound
    \/ TryEncoding(DEFAULT_ENCODINGS)
    \/ ReadUndecodable
    \/ MainReadFailed
    \/ MainFilter
    \/ MainSave

SpecRegistry == InitRegistry /\ [][NextRegistry]_vars

\* ------------------------------------------------------------------------
\* MainApp (main_gui.py:363-451): the buttons and the workflow threads they
\* start.  A thread is followed from one call of run_main_workflow to the
\* next: "extract" while run_excel_process runs, "edit" while
\* edit_json_with_openai runs, "export" while input_json_convert_csv runs,
\* then "finish" or "except", and "done" once run_main_workflow returned.
\* ------------------------------------------------------------------------
InitGui ==
    /\ PipelineIdle
    /\ RegistryIdle
    /\ GuiInit

\* main_gui.py:397-405  the Start button's command
start_workflow ==
    /\ window = "open"
    /\ start_btn = "normal"
    /\ Len(threads) < MaxThreads
    /\ app' = [app EXCEPT !.start_btn = "disabled",
                          !.stop_btn = "normal",
                          !.timer_running = TRUE,
                          !.threads = Append(threads, "extract")]
    /\ UNCHANGED <<pipeline, cli>>

\* a Stop that also ends the workflow threads in flight
StopCancelsThreads ==
    /\ window = "open"
    /\ stop_btn = "normal"
    /\ app' = [app EXCEPT !.timer_running = FALSE,
                          !.start_btn = "normal",
                          !.stop_btn = "disabled",
                          !.threads = [t \in 1..Len(threads) |-> "done"]]
    /\ UNCHANGED <<pipeline, cli>>

\* main_gui.py:407-412  the Stop button's command
stop_workflow ==
    /\ window = "open"
    /\ stop_btn = "normal"
    /\ app' = [app EXCEPT !.timer_running = FALSE,
                          !.start_btn = "normal",
                          !.stop_btn = "disabled"]
    /\ UNCHANGED <<pipeline, cli>>

\* main_gui.py:447-451  the window is closed; the threads are daemons and end
\* with the process
on_close ==
    /\ window = "open"
    /\ app' = [app EXCEPT !.window = "destroyed"]
    /\ UNCHANGED <<pipeline, cli>>

\* main_gui.py:426,132-135  run_excel_process wrote the intermediate JSON and
\* returned; a write keeps what _timer_running was when it was made
ThreadExtracted(t) ==
    /\ window = "open"
    /\ threads[t] = "extract"
    /\ app' = [app EXCEPT
                 !.writes = Append(writes, [thread |-> t, file |-> "json",
                                            timer |-> timer_running]),
                 !.threads[t] = "edit"]
    /\ UNCHANGED <<pipeline, cli>>

\* main_gui.py:430  edit_json_with_openai returned
ThreadEdited(t) ==
    /\ window = "open"
    /\ threads[t] = "edit"
    /\ app' = [app EXCEPT !.threads[t] = "export"]
    /\ UNCHANGED <<pipeline, cli>>

\* main_gui.py:431,354-357  input_json_convert_csv rewrote the CSV and
\* returned
ThreadExported(t) ==
    /\ window = "open"
    /\ threads[t] = "export"
    /\ app' = [app EXCEPT
                 !.writes = Append(writes, [thread |-> t, file |-> "csv",
                                            timer |-> timer_running]),
                 !.threads[t] = "finish"]
    /\ UNCHANGED <<pipeline, cli>>

\* main_gui.py:426-431  one of the three calls raised
ThreadRaised(t) ==
    /\ window = "open"
    /\ threads[t] \in {"extract", "edit", "export"}
    /\ app' = [app EXCEPT !.threads[t] = "except"]
    /\ UNCHANGED <<pipeline, cli>>

\* main_gui.py:435-445  the end of run_main_workflow, on either path
ThreadEnds(t) ==
    /\ window = "open"
    /\ threads[t] \in {"finish", "except"}
    /\ app' = [app EXCEPT !.timer_running = FALSE,
                          !.stop_btn = "disabled",
                          !.start_btn = "normal",
                          !.threads[t] = "done"]
    /\ UNCHANGED <<pipeline, cli>>

NextGui ==
    \/ start_workflow
    \/ stop_workflow
    \/ on_close
    \/ \E t \in 1..Len(threads) : ThreadExtracted(t)
    \/ \E t \in 1..Len(threads) : ThreadEdited(t)
    \/ \E t \in 1..Len(threads) : ThreadExported(t)
    \/ \E t \in 1..Len(threads) : ThreadRaised(t)
    \/ \E t \in 1..Len(threads) : ThreadEnds(t)

SpecGui == InitGui /\ [][NextGui]_vars

\* main_gui.py:404-405,422-445  what is left of run_main_workflow in thread t
ThreadStep(t) ==
    /\ t \in 1..Len(threads)
    /\ \/ ThreadExtracted(t)
       \/ ThreadEdited(t)
       \/ ThreadExported(t)
       \/ ThreadRaised(t)
       \/ ThreadEnds(t)

\* a started thread is scheduled until run_main_workflow returns
SpecGuiFair == SpecGui /\ \A t \in 1..MaxThreads : WF_vars(ThreadStep(t))

\* ------------------------------------------------------------------------
\* vba_simulation.py: run_excel_process and the dialog watcher
\* ------------------------------------------------------------------------
\* vba_simulation.py:18
MACRO_NAME == "Trimming"

\* vba_simulation.py:291  wb.Name, the file name of the workbook
workbook_name == "runMacro.xlsm"

\* vba_simulation.py:292  os.path.basename(EXCEL_PATH)
workbook_base == "runMacro.xlsm"

\* position of run_excel_process
xpc == xl.pc
\* vba_simulation.py:293-305  the macro paths to try, in order
macro_attempts == xl.macro_attempts
\* vba_simulation.py:288
macro_called == xl.macro_called
\* vba_simulation.py:312  the thread close_msgbox returned
dialog_thread == xl.dialog_thread
\* vba_simulation.py:62  dialog_handled of monitor_and_click
dialog_handled == xl.dialog_thread.dialog_handled
\* invocations of the macro that have returned or raised, in order
runs == xl.runs
\* the confirmation box of the macro: "none", "shown" or "gone"
dialog == xl.dialog

\* (proc_name, module) pairs the listing of lines 262-271 can find
FoundMacros ==
    { <<"Trimming", "Module1">>, <<"Trim", "Module2">>, <<"Main", "Module1">> }

\* vba_simulation.py:303  MACRO_NAME.lower() in macro_name.lower() or
\* macro_name.lower() in MACRO_NAME.lower(), for the names of FoundMacros
NameMatches(macro_name) == macro_name \in {"Trimming", "Trim"}

\* the lists available_macros can be after lines 260-277
AvailableMacros ==
    UNION { [1..n -> FoundMacros] : n \in 0..MaxModules }

\* vba_simulation.py:301-305  the two module-specific paths of every
\* matching macro are put in front, the later ones first
RECURSIVE InsertModulePaths(_, _)
InsertModulePaths(attempts, available) ==
    IF available = <<>> THEN attempts
    ELSE LET macro_name == Head(available)[1]
             module_name == Head(available)[2]
             next == IF NameMatches(macro_name)
                     THEN << <<"'", workbook_name, "'", "!", module_name, ".", macro_name>>,
                             <<module_name, ".", macro_name>> >> \o attempts
                     ELSE attempts
         IN  InsertModulePaths(next, Tail(available))

\* vba_simulation.py:293-305  macro_attempts
MacroAttempts(available) ==
    InsertModulePaths(
        << <<MACRO_NAME>>,
           <<workbook_name, "!", MACRO_NAME>>,
           <<"'", workbook_name, "'", "!", MACRO_NAME>>,
           <<"'", workbook_base, "'", "!", MACRO_NAME>> >>,
        available)

\* vba_simulation.py:157-160  the input JSON cannot be loaded or Dispatch
\* raises: the exception leaves run_excel_process before Excel exists
MacroLoadFails ==
    /\ xpc = "idle"
    /\ xl' = [xl EXCEPT !.pc = "done", !.exc = "Exception"]
    /\ UNCHANGED <<sheet, pc, row, results, jsonFile, data, idx, edited_data,
                   calls, raised, csvFile, exports, report, env, cli, app, ai>>

\* vba_simulation.py:170-175  Dispatch returned and an assignment to a
\* property of the application raises: these lines are before the try
MacroConfigureFails ==
    /\ xpc = "idle"
    /\ xl' = [xl EXCEPT !.pc = "done", !.excel = "running",
                        !.exc = "com_error"]
    /\ UNCHANGED <<sheet, pc, row, results, jsonFile, data, idx, edited_data,
                   calls, raised, csvFile, exports, report, env, cli, app, ai>>

\* vba_simulation.py:157-185  input loaded, Excel started and configured,
\* wb = None, the try block entered
MacroConfigured ==
    /\ xpc = "idle"
    /\ xl' = [xl EXCEPT !.pc = "try", !.excel = "running"]
    /\ UNCHANGED <<sheet, pc, row, results, jsonFile, data, idx, edited_data,
                   calls, raised, csvFile, exports, report, env, cli, app, ai>>

\* vba_simulation.py:189-196  Workbooks.Open returned
MacroOpen ==
    /\ xpc = "try"
    /\ xl' = [xl EXCEPT !.pc = "prepare", !.wb = "open"]
    /\ UNCHANGED <<sheet, pc, row, results, jsonFile, data, idx, edited_data,
                   calls, raised, csvFile, exports, report, env, cli, app, ai>>

\* vba_simulation.py:189-196,421-425  Workbooks.Open raised: wb is still None
MacroOpenFails ==
    /\ xpc = "try"
    /\ xl' = [xl EXCEPT !.pc = "finally", !.exc = "com_error"]
    /\ UNCHANGED <<sheet, pc, row, results, jsonFile, data, idx, edited_data,
                   calls, raised, csvFile, exports, report, env, cli, app, ai>>

\* vba_simulation.py:199-305  the sheets are found, the rows written, the
\* macros listed as far as the listing gets, and macro_attempts built
MacroPrepared ==
    /\ xpc = "prepare"
    /\ \E available \in AvailableMacros :
         xl' = [xl EXCEPT !.pc = "watch",
                          !.macro_attempts = MacroAttempts(available)]
    /\ UNCHANGED <<sheet, pc, row, results, jsonFile, data, idx, edited_data,
                   calls, raised, csvFile, exports, report, env, cli, app, ai>>

\* vba_simulation.py:199-253,421-425  no sheet of either name, or a cell
\* write raised
MacroPrepareFails ==
    /\ xpc = "prepare"
    /\ xl' = [xl EXCEPT !.pc = "finally", !.exc = "RuntimeError"]
    /\ UNCHANGED <<sheet, pc, row, results, jsonFile, data, idx, edited_data,
                   calls, raised, csvFile, exports, report, env, cli, app, ai>>

\* vba_simulation.py:312-313,140-143  close_msgbox starts the watcher thread
close_msgbox ==
    /\ xpc = "watch"
    /\ xl' = [xl EXCEPT !.pc = "attempts",
                        !.dialog_thread = [NoWatcher EXCEPT !.state = "polling"]]
    /\ UNCHANGED <<sheet, pc, row, results, jsonFile, data, idx, edited_data,
                   calls, raised, csvFile, exports, report, env, cli, app, ai>>

\* vba_simulation.py:316-319,327-329  the call of the next path, by
\* excel.Run or after its failure by wb.Application.Run, is made
MacroInvoke ==
    /\ xpc = "attempts"
    /\ xl.k <= Len(macro_attempts)
    /\ xl' = [xl EXCEPT !.pc = "running"]
    /\ UNCHANGED <<sheet, pc, row, results, jsonFile, data, idx, edited_data,
                   calls, raised, csvFile, exports, report, env, cli, app, ai>>

\* vba_simulation.py:319-322,329-332  the call returned (it cannot while the
\* macro waits on its confirmation box): macro_called = True, break
MacroRunReturns ==
    /\ xpc = "running"
    /\ dialog # "shown"
    /\ xl' = [xl EXCEPT
                !.runs = Append(runs, [path |-> macro_attempts[xl.k],
                                       via |-> xl.via, ok |-> TRUE]),
                !.macro_called = TRUE,
                !.pc = "sleep"]
    /\ UNCHANGED <<sheet, pc, row, results, jsonFile, data, idx, edited_data,
                   calls, raised, csvFile, exports, report, env, cli, app, ai>>

\* vba_simulation.py:323-334  the call raised: after excel.Run the same path
\* goes to wb.Application.Run, after that the loop continues
MacroRunRaises ==
    /\ xpc = "running"
    /\ dialog # "shown"
    /\ xl' = [xl EXCEPT
                !.runs = Append(runs, [path |-> macro_attempts[xl.k],
                                       via |-> xl.via, ok |-> FALSE]),
                !.via = IF xl.via = "excel" THEN "wb" ELSE "excel",
                !.k = IF xl.via = "excel" THEN xl.k ELSE xl.k + 1,
                !.pc = "attempts"]
    /\ UNCHANGED <<sheet, pc, row, results, jsonFile, data, idx, edited_data,
                   calls, raised, csvFile, exports, report, env, cli, app, ai>>

\* vba_simulation.py:337-348  no path worked; Activate, OnTime and the sleep
\* returned: macro_called = True
MacroOnTime ==
    /\ xpc = "attempts"
    /\ xl.k > Len(macro_attempts)
    /\ ~macro_called
    /\ xl' = [xl EXCEPT !.ontime = "scheduled", !.macro_called = TRUE,
                        !.pc = "sleep"]
    /\ UNCHANGED <<sheet, pc, row, results, jsonFile, data, idx, edited_data,
                   calls, raised, csvFile, exports, report, env, cli, app, ai>>

\* vba_simulation.py:337-382,421-425  no path worked and the OnTime attempt
\* raised: RuntimeError
MacroOnTimeFails ==
    /\ xpc = "attempts"
    /\ xl.k > Len(macro_attempts)
    /\ ~macro_called
    /\ xl' = [xl EXCEPT !.ontime = "failed", !.exc = "RuntimeError",
                        !.pc = "finally"]
    /\ UNCHANGED <<sheet, pc, row, results, jsonFile, data, idx, edited_data,
                   calls, raised, csvFile, exports, report, env, cli, app, ai>>

\* vba_simulation.py:385-392  sleep, then join(timeout=5) if the watcher is
\* alive: run_excel_process goes on when the thread has ended or when the
\* five seconds are over
MacroJoin ==
    /\ xpc = "sleep"
    /\ xl' = [xl EXCEPT
                !.joined = IF dialog_thread.state = "ended"
                           THEN "ended" ELSE "timeout",
                !.pc = "collect"]
    /\ UNCHANGED <<sheet, pc, row, results, jsonFile, data, idx, edited_data,
                   calls, raised, csvFile, exports, report, env, cli, app, ai>>

\* vba_simulation.py:394-420  the results are read, the output JSON is
\* written, return results
MacroCollect ==
    /\ xpc = "collect"
    /\ xl' = [xl EXCEPT !.json_written = TRUE, !.pc = "finally"]
    /\ UNCHANGED <<sheet, pc, row, results, jsonFile, data, idx, edited_data,
                   calls, raised, csvFile, exports, report, env, cli, app, ai>>

\* vba_simulation.py:394-415,421-425  reading a cell raised
MacroCollectFails ==
    /\ xpc = "collect"
    /\ xl' = [xl EXCEPT !.exc = "com_error", !.pc = "finally"]
    /\ UNCHANGED <<sheet, pc, row, results, jsonFile, data, idx, edited_data,
                   calls, raised, csvFile, exports, report, env, cli, app, ai>>

\* vba_simulation.py:426-438  finally: wb.Close(SaveChanges=False) when wb
\* is not None, then excel.Quit(); what either raises is swallowed
MacroFinally ==
    /\ xpc = "finally"
    /\ \E closed \in BOOLEAN, quit \in BOOLEAN :
         xl' = [xl EXCEPT
                  !.close_called = (xl.wb # "none"),
                  !.wb = IF xl.wb = "open" /\ closed THEN "closed" ELSE xl.wb,
                  !.quit_called = TRUE,
                  !.excel = IF quit THEN "quit" ELSE xl.excel,
                  !.pc = "done"]
    /\ UNCHANGED <<sheet, pc, row, results, jsonFile, data, idx, edited_data,
                   calls, raised, csvFile, exports, report, env, cli, app, ai>>

\* the macro, run by a call or by the timer OnTime set, shows its
\* confirmation box
DialogAppears ==
    /\ dialog = "none"
    /\ xpc = "running" \/ (xl.ontime = "scheduled" /\ xpc = "sleep")
    /\ xl' = [xl EXCEPT !.dialog = "shown"]
    /\ UNCHANGED <<sheet, pc, row, results, jsonFile, data, idx, edited_data,
                   calls, raised, csvFile, exports, report, env, cli, app, ai>>

\* somebody at the screen answers the box
UserDismisses ==
    /\ dialog = "shown"
    /\ xl' = [xl EXCEPT !.dialog = "gone"]
    /\ UNCHANGED <<sheet, pc, row, results, jsonFile, data, idx, edited_data,
                   calls, raised, csvFile, exports, report, env, cli, app, ai>>

\* vba_simulation.py:64-78,134  one turn of the loop that finds no window
\* with a matching title: sleep and test again
WatcherPolls ==
    /\ dialog_thread.state = "polling"
    /\ dialog_thread.polls < MaxPolls
    /\ ~dialog_handled
    /\ dialog # "shown"
    /\ xl' = [xl EXCEPT !.dialog_thread.polls = dialog_thread.polls + 1]
    /\ UNCHANGED <<sheet, pc, row, results, jsonFile, data, idx, edited_data,
                   calls, raised, csvFile, exports, report, env, cli, app, ai>>

\* vba_simulation.py:64-138  one turn of the loop that finds n windows with a
\* matching title (the macro's box among them when it is shown): the first
\* is handled and dialog_handled set; the click is made and True returned,
\* or no click is made, or the handling raises, and then the other windows
\* are passed over, the loop ends and False is returned. The box may or may
\* not close.
WatcherHandles ==
    /\ dialog_thread.state = "polling"
    /\ dialog_thread.polls < MaxPolls
    /\ ~dialog_handled
    /\ \E n \in 1..MaxWindows, outcome \in {"clicked", "unclicked", "raised"},
          answered \in BOOLEAN :
         xl' = [xl EXCEPT
                  !.dialog_thread =
                      [state |-> "ended", polls |-> dialog_thread.polls,
                       dialog_handled |-> TRUE,
                       button_clicked |-> (outcome = "clicked"),
                       found |-> n, handled |-> 1,
                       result |-> IF outcome = "clicked" THEN "True" ELSE "False"],
                  !.dialog = IF dialog = "shown" /\ answered THEN "gone" ELSE dialog]
    /\ UNCHANGED <<sheet, pc, row, results, jsonFile, data, idx, edited_data,
                   calls, raised, csvFile, exports, report, env, cli, app, ai>>

\* a loop that starts its clock again instead of ending
WatcherTimeoutRestarts ==
    /\ dialog_thread.state = "polling"
    /\ dialog_thread.polls >= MaxPolls
    /\ ~dialog_handled
    /\ xl' = [xl EXCEPT !.dialog_thread.polls = 0]
    /\ UNCHANGED <<sheet, pc, row, results, jsonFile, data, idx, edited_data,
                   calls, raised, csvFile, exports, report, env, cli, app, ai>>

\* vba_simulation.py:64,136-138  the timeout has elapsed and no window was
\* handled: return False
WatcherTimeout ==
    /\ dialog_thread.state = "polling"
    /\ dialog_thread.polls >= MaxPolls
    /\ ~dialog_handled
    /\ xl' = [xl EXCEPT !.dialog_thread.state = "ended",
                        !.dialog_thread.result = "False"]
    /\ UNCHANGED <<sheet, pc, row, results, jsonFile, data, idx, edited_data,
                   calls, raised, csvFile, exports, report, env, cli, app, ai>>

\* vba_simulation.py:78  EnumWindows raised: the exception ends the thread
WatcherRaises ==
    /\ dialog_thread.state = "polling"
    /\ dialog_thread.polls < MaxPolls
    /\ ~dialog_handled
    /\ xl' = [xl EXCEPT !.dialog_thread.state = "ended",
                        !.dialog_thread.result = "raised"]
    /\ UNCHANGED <<sheet, pc, row, results, jsonFile, data, idx, edited_data,
                   calls, raised, csvFile, exports, report, env, cli, app, ai>>

\* vba_simulation.py:59-138  the thread close_msgbox started
monitor_and_click ==
    \/ WatcherPolls
    \/ WatcherHandles
    \/ WatcherTimeout
    \/ WatcherRaises

\* vba_simulation.py:385-438  run_excel_process from the wait for the
\* watcher to its end
MacroGoesOn ==
    \/ MacroJoin
    \/ MacroCollect
    \/ MacroCollectFails
    \/ MacroFinally

InitMacro ==
    /\ PipelineIdle
    /\ RegistryIdle
    /\ GuiInit

NextMacro ==
    \/ MacroLoadFails
    \/ MacroConfigureFails
    \/ MacroConfigured
    \/ MacroOpen
    \/ MacroOpenFails
    \/ MacroPrepared
    \/ MacroPrepareFails
    \/ close_msgbox
    \/ MacroInvoke
    \/ MacroRunReturns
    \/ MacroRunRaises
    \/ MacroOnTime
    \/ MacroOnTimeFails
    \/ MacroJoin
    \/ MacroCollect
    \/ MacroCollectFails
    \/ MacroFinally
    \/ DialogAppears
    \/ UserDismisses
    \/ WatcherPolls
    \/ WatcherHandles
    \/ WatcherTimeout
    \/ WatcherRaises

SpecMacro == InitMacro /\ [][NextMacro]_vars

\* the watcher thread and run_excel_process' own thread are scheduled; no
\* call that the environment must answer is assumed to return
SpecMacroFair ==
    SpecMacro /\ WF_vars(monitor_and_click) /\ WF_vars(MacroGoesOn)

\* ------------------------------------------------------------------------
\* ai_connect.py: edit_json_with_openai run on its own, with a model that
\* answers the same text to the same input
\* ------------------------------------------------------------------------
\* item.get(key)
DictGet(item, key) == IF key \in DOMAIN item THEN item[key] ELSE None

\* item[key] = value
DictSet(item, key, value) ==
    [k \in DOMAIN item \cup {key} |-> IF k = key THEN value ELSE item[k]]

\* the canonical title the model makes of the text it is sent
Canon(sent) ==
    IF sent.t # "str" THEN <<>>
    ELSE IF Strip(sent.v) = <<"A", " ", "2">> THEN <<"A">>
    ELSE Strip(sent.v)

\* the volume number the model finds in the text it is sent, "0" for none
VolumeFound(sent) ==
    IF sent.t = "str" /\ Strip(sent.v) = <<"A", " ", "2">> THEN <<"2">>
    ELSE <<"0">>

\* the models: each answers the canonical title; "two lines" always adds
\* the volume line (with blanks and an empty line around), "volume if any"
\* adds it only when it found a volume, "title only" never does
Stubs == {"two lines", "volume if any", "title only"}

\* response.output_text of the model for the text sent (ai_connect.py:168-183)
StubAnswer(stub, sent) ==
    CASE stub = "two lines" ->
            <<" ">> \o Canon(sent) \o <<" ", "\n", "\n">> \o VolumeFound(sent)
                \o <<"\n">>
      [] stub = "volume if any" ->
            IF VolumeFound(sent) = <<"0">> THEN Canon(sent)
            ELSE Canon(sent) \o <<"\n">> \o VolumeFound(sent)
      [] stub = "title only" -> Canon(sent)

\* ai_connect.py:185-190  new_item after an answer of at least two lines
AiApply(item, lines) ==
    LET titled == DictSet(item, "title", Str(lines[1]))
    IN  IF lines[2] # <<"0">> THEN DictSet(titled, "volume", Str(lines[2]))
        ELSE titled

\* records of the JSON file ai_connect.py is given: with or without a title,
\* a colour flag, a volume
AiRecords ==
    [title : {Str(<<"A", " ", "2">>), Str(<<"A">>)},
     color : {Bool(TRUE), Bool(FALSE)},
     ASIN : {Str(<<"B", "0">>)},
     volume : {IntV(1)}]
    \cup [title : {Str(<<"A", " ", "2">>)}, ASIN : {Str(<<"B", "0">>)}]
    \cup [ASIN : {Str(<<"B", "0">>)}, color : {Bool(TRUE), Bool(FALSE)}]
    \cup [title : {None}, color : {Bool(TRUE)}]

AiInputs == UNION {[1..n -> AiRecords] : n \in 0..MaxItems}

\* the model that answers
stub == ai.stub
\* 1 for the first run of edit_json_with_openai, 2 for the run on what the
\* first returned
pass == ai.pass

InitEdit ==
    /\ sheet = <<>>
    /\ pc = "ai_edit"
    /\ row = START_ROW
    /\ results = <<>>
    /\ jsonFile \in {JsonDump(records) : records \in AiInputs}
    /\ data = <<>>
    /\ idx = 1
    /\ edited_data = <<>>
    /\ calls = <<>>
    /\ raised = "none"
    /\ csvFile = CsvBefore
    /\ exports = 0
    /\ report = "none"
    /\ env \in [OPENAI_API_KEY : BOOLEAN, csv_path : {TRUE},
                 csvAtEntry : {CsvBefore}]
    /\ RegistryIdle
    /\ GuiInit
    /\ MacroIdle
    /\ ai \in [stub : Stubs, pass : {1}]

\* ai_connect.py:36-44  no api_key argument and no key in the environment
AiNoKey ==
    /\ pc = "ai_edit"
    /\ ~OPENAI_API_KEY
    /\ raised' = "ValueError"
    /\ pc' = "ai_except"
    /\ UNCHANGED <<sheet, row, results, jsonFile, data, idx, edited_data, calls,
                   csvFile, exports, report>>
    /\ UNCHANGED frame

\* ai_connect.py:47-53,161  json.load of the file, edited_data = []
AiLoad ==
    /\ pc = "ai_edit"
    /\ OPENAI_API_KEY
    /\ data' = JsonLoad(jsonFile)
    /\ idx' = 1
    /\ edited_data' = <<>>
    /\ calls' = <<>>
    /\ pc' = "ai_loop"
    /\ UNCHANGED <<sheet, row, results, jsonFile, raised, csvFile, exports,
                   report>>
    /\ UNCHANGED frame

\* ai_connect.py:163-165,191-193  an item whose colour flag is not true
AiPassThrough ==
    /\ pc = "ai_loop"
    /\ idx <= Len(data)
    /\ ~NeedsCall(data[idx])
    /\ edited_data' =
           Append(edited_data,
                  DictSet(data[idx], "title", DictGet(data[idx], "title")))
    /\ idx' = idx + 1
    /\ UNCHANGED <<sheet, pc, row, results, jsonFile, data, calls, raised,
                   csvFile, exports, report>>
    /\ UNCHANGED frame

\* AiCall with new_item = item in place of item.copy()
AiCallInPlace ==
    /\ pc = "ai_loop"
    /\ idx <= Len(data)
    /\ NeedsCall(data[idx])
    /\ LET sent == DictGet(data[idx], "title")
           text == StubAnswer(stub, sent)
           lines == ResponseLines(text)
       IN  /\ WellFormed(lines)
           /\ edited_data' = Append(edited_data, AiApply(data[idx], lines))
           /\ data' = [data EXCEPT ![idx] = AiApply(data[idx], lines)]
           /\ calls' = Append(calls, Call(idx, sent, Str(text)))
    /\ idx' = idx + 1
    /\ UNCHANGED <<sheet, pc, row, results, jsonFile, raised, csvFile,
                   exports, report>>
    /\ UNCHANGED frame

\* ai_connect.py:163-190,193  the model's answer has at least two lines
AiCall ==
    /\ pc = "ai_loop"
    /\ idx <= Len(data)
    /\ NeedsCall(data[idx])
    /\ LET sent == DictGet(data[idx], "title")
           text == StubAnswer(stub, sent)
           lines == ResponseLines(text)
       IN  /\ WellFormed(lines)
           /\ edited_data' = Append(edited_data, AiApply(data[idx], lines))
           /\ calls' = Append(calls, Call(idx, sent, Str(text)))
    /\ idx' = idx + 1
    /\ UNCHANGED <<sheet, pc, row, results, jsonFile, data, raised, csvFile,
                   exports, report>>
    /\ UNCHANGED frame

\* ai_connect.py:185-187  the answer has fewer than two lines: lines[0] or
\* lines[1] raises IndexError, which none of the except clauses of lines
\* 194-204 names
AiMalformed ==
    /\ pc = "ai_loop"
    /\ idx <= Len(data)
    /\ NeedsCall(data[idx])
    /\ LET sent == DictGet(data[idx], "title")
           text == StubAnswer(stub, sent)
       IN  /\ ~WellFormed(ResponseLines(text))
           /\ calls' = Append(calls, Call(idx, sent, Str(text)))
    /\ raised' = "IndexError"
    /\ pc' = "ai_except"
    /\ UNCHANGED <<sheet, row, results, jsonFile, data, idx, edited_data,
                   csvFile, exports, report>>
    /\ UNCHANGED frame

\* ai_connect.py:206  return edited_data
AiReturn ==
    /\ pc = "ai_loop"
    /\ idx > Len(data)
    /\ pc' = "ai_returned"
    /\ UNCHANGED <<sheet, row, results, jsonFile, data, idx, edited_data, calls,
                   raised, csvFile, exports, report>>
    /\ UNCHANGED frame

\* the records returned are saved as the JSON file of a second run of
\* edit_json_with_openai (ai_connect.py:26-30)
AiFeedBack ==
    /\ pc = "ai_returned"
    /\ pass = 1
    /\ jsonFile' = JsonDump(edited_data)
    /\ ai' = [ai EXCEPT !.pass = 2]
    /\ pc' = "ai_edit"
    /\ UNCHANGED <<sheet, row, results, data, idx, edited_data, calls, raised,
                   csvFile, exports, report>>
    /\ UNCHANGED <<env, cli, app, xl>>

NextEdit ==
    \/ AiNoKey
    \/ AiLoad
    \/ AiPassThrough
    \/ AiCall
    \/ AiMalformed
    \/ AiReturn
    \/ AiFeedBack

SpecEdit == InitEdit /\ [][NextEdit]_vars

\* ------------------------------------------------------------------------
\* Vocabulary of the properties
\* ------------------------------------------------------------------------
\* the sheet row that record i was extracted from
RowOf(i) == sheet[i]

\* the for loop of edit_json_with_openai has reached the end of the body,
\* or left it with an exception, for item i
Processed(i) ==
    /\ pc \in {"loop", "export", "finish", "except", "done"}
    /\ i \in 1..Len(data)
    /\ \/ i < idx
       \/ i = idx /\ raised # "none"

\* a remote call was issued for item i
CalledFor(i) == \E k \in 1..Len(calls) : calls[k].index = i

\* the record emitted for item i
Emitted(i) == i \in 1..Len(edited_data)

\* the volume cell is absent or int() fails on it
VolumeUnparseable(cells) == cells.volume = None \/ ~PyInt(cells.volume).ok

\* ------------------------------------------------------------------------
\* C1  Every extracted row whose title cell has the sentinel colour carries
\*     the flag color = true, whatever its volume cell holds, and the
\*     normalizer issues a remote call for it when its loop processes it.
\* ------------------------------------------------------------------------
C1_SentinelRowIsDirty ==
    /\ \A i \in 1..Len(results) :
          RowOf(i).color = SENTINEL_COLOR => results[i].color = Bool(TRUE)
    /\ \A i \in 1..Len(data) :
          (Processed(i) /\ RowOf(i).color = SENTINEL_COLOR) => CalledFor(i)

\* a sentinel-coloured row with an unparseable volume cell and one with an
\* absent volume cell were both flagged and sent to the service
C1_Witness ==
    /\ Len(data) = 2
    /\ RowOf(1).color = SENTINEL_COLOR /\ RowOf(1).volume = Str(<<"x">>)
    /\ RowOf(2).color = SENTINEL_COLOR /\ RowOf(2).volume = None
    /\ Processed(1) /\ CalledFor(1)
    /\ Processed(2) /\ CalledFor(2)

\* ------------------------------------------------------------------------
\* C2  For every record whose title is empty (None or ""), no remote call
\*     is made and the emitted title equals the input title, for every
\*     value of the colour flag.
\* ------------------------------------------------------------------------
C2_EmptyTitleNoCall ==
    \A i \in 1..Len(data) :
        (Processed(i) /\ IsEmptyValue(data[i].title)) =>
            /\ ~CalledFor(i)
            /\ Emitted(i) /\ edited_data[i].title = data[i].title

C5_VolumeNormalized ==
    /\ \A i \in 1..Len(results) :
          LET cell == RowOf(i).volume
              volume == results[i].volume
          IN  /\ volume.t = "int"
              /\ cell = None => volume.v = 1
              /\ cell = Str(<<"x">>) => volume.v = 1
              /\ cell = Str(<<" ", "3">>) => volume.v = 3
              /\ cell = Float(2, 5) => volume.v = 2
    /\ \A i \in 1..Len(data) :
          data[i].volume.t = "int" /\ data[i].volume = results[i].volume

\* the records of a row without a volume cell and of a row with a textual
\* integer have been written to the JSON file and loaded back
C5_Witness ==
    /\ Len(data) = 2
    /\ RowOf(1).volume = None /\ data[1].volume = IntV(1)
    /\ RowOf(2).volume = Str(<<" ", "3">>) /\ data[2].volume = IntV(3)

\* ------------------------------------------------------------------------
\* C6  (as claimed) Every row whose volume parses to an integer equal to the
\*     baseline volume, whose title is non-empty and whose title colour is
\*     not the sentinel is classified not dirty and no remote call is made
\*     for it; conversely a row whose baseline volume is empty or differs
\*     from the freshly parsed volume is classified dirty.
\* ------------------------------------------------------------------------
VolumeMatchesBaseline(cells, volume) ==
    ~VolumeUnparseable(cells) /\ ~BaselineEmptyOrDiffers(cells, volume)

C6_CleanWhenMatching ==
    \A i \in 1..Len(results) :
        ( /\ VolumeMatchesBaseline(RowOf(i), results[i].volume)
          /\ ~IsEmptyValue(RowOf(i).title)
          /\ RowOf(i).color # SENTINEL_COLOR ) =>
            /\ results[i].color = Bool(FALSE)
            /\ Processed(i) => (~CalledFor(i) /\ Emitted(i))

C7_MalformedDegrades ==
    \A k \in 1..Len(calls) :
        LET i == calls[k].index
        IN  ( /\ calls[k].answer.t = "str"
              /\ Len(ResponseLines(calls[k].answer.v)) < 2 ) =>
                /\ raised = "none"
                /\ Emitted(i)
                /\ edited_data[i].volume = data[i].volume

\* ------------------------------------------------------------------------
\* C8  When the second non-empty line of the answer is exactly "0", the
\*     emitted title is line 1 of the answer and the emitted volume is the
\*     volume the input record had.
\* ------------------------------------------------------------------------
C8_ZeroKeepsVolume ==
    \A k \in 1..Len(calls) :
        LET i == calls[k].index
            lines == IF calls[k].answer.t = "str"
                     THEN ResponseLines(calls[k].answer.v) ELSE <<>>
        IN  /\ (Len(lines) >= 2 /\ lines[2] = <<"0">>) =>
                  /\ Emitted(i)
                  /\ edited_data[i].title = Str(lines[1])
                  /\ edited_data[i].volume = data[i].volume
            /\ calls[k].answer = Str(<<" ", "B", " ", "\n", "\n", "0", " ", "\n">>) =>
                  /\ Emitted(i)
                  /\ edited_data[i].title = Str(<<"B">>)
                  /\ edited_data[i].volume = data[i].volume

\* a record with volume 3 was answered "B" / "0" and emitted
C8_Witness ==
    \E k \in 1..Len(calls) :
        /\ calls[k].answer = Str(<<" ", "B", " ", "\n", "\n", "0", " ", "\n">>)
        /\ data[calls[k].index].volume = IntV(3)
        /\ Emitted(calls[k].index)
        /\ edited_data[calls[k].index].volume = IntV(3)

\* ------------------------------------------------------------------------
\* C9  In every record returned by edit_json_with_openai the volume is null
\*     or untouched or a parsed integer; when line 2 of the answer is not
\*     "0", the volume is the integer value of line 2 ("A" / "4" gives 4).
\* ------------------------------------------------------------------------
C9_VolumeIsInteger ==
    /\ \A i \in 1..Len(edited_data) :
          edited_data[i].volume.t \in {"none", "int"}
    /\ \A k \in 1..Len(calls) :
          (calls[k].answer = Str(<<"A", "\n", "4">>) /\ Emitted(calls[k].index)) =>
              edited_data[calls[k].index].volume = IntV(4)

\* ------------------------------------------------------------------------
\* C10 When the remote call for a row raises an authentication or API
\*     error, edit_json_with_openai raises ValueError or RuntimeError and
\*     returns nothing, no later row is sent to the service, the export is
\*     never entered, the CSV on disk keeps its content and the run is not
\*     reported as completed.
\* ------------------------------------------------------------------------
C10_RemoteFailureAborts ==
    \A k \in 1..Len(calls) :
        calls[k].answer.t = "raise" =>
            /\ k = Len(calls)
            /\ idx = calls[k].index
            /\ Len(edited_data) = idx - 1
            /\ pc \in {"except", "done"}
            /\ calls[k].answer = Raise("AuthenticationError") => raised = "ValueError"
            /\ calls[k].answer = Raise("APIError") => raised = "RuntimeError"
            /\ exports = 0
            /\ csvFile = CsvBefore
            /\ pc = "done" => report = "error"
            /\ pc = "except" => report = "none"

\* the call for the first of two dirty rows failed, the run ended with an
\* error report, and the second row was never sent
C10_Witness ==
    /\ Len(data) = 2
    /\ NeedsCall(data[1]) /\ NeedsCall(data[2])
    /\ Len(calls) = 1 /\ calls[1].answer = Raise("APIError")
    /\ ~CalledFor(2)
    /\ pc = "done" /\ report = "error"
    /\ csvFile = CsvBefore

\* ------------------------------------------------------------------------
\* C11 In a run where the API key is missing, the failure is raised before
\*     any processing starts: no row has been extracted, the intermediate
\*     JSON has not been written and no remote call has been made.
\* ------------------------------------------------------------------------
C11_ConfigFailsFast ==
    (~OPENAI_API_KEY /\ raised # "none") =>
        /\ results = <<>>
        /\ row = START_ROW
        /\ jsonFile = <<>>
        /\ calls = <<>>

\* ------------------------------------------------------------------------
\* C19 The extraction loop stops at the first row, from START_ROW downward,
\*     whose title, ASIN and volume cells are all None or empty; that row is
\*     not emitted, and the result is exactly the rows before it in sheet
\*     order, rows with only some empty cells included.
\* ------------------------------------------------------------------------
AllMappedEmpty(cells) ==
    /\ cells.title \in {None, Str(<<>>)}
    /\ cells.ASIN \in {None, Str(<<>>)}
    /\ cells.volume \in {None, Str(<<>>)}

\* position in the sheet of the first row with every mapped cell empty
DataEnd ==
    CHOOSE e \in 1..(Len(sheet) + 1) :
        /\ e <= Len(sheet) => AllMappedEmpty(sheet[e])
        /\ \A i \in 1..(e - 1) : ~AllMappedEmpty(sheet[i])

ExportSucceeded ==
    /\ pc \in {"finish", "done"}
    /\ exports = 1
    /\ raised = "none"
    /\ edited_data # <<>>

\* input_json_convert_csv was called with at least one record and raised
ExportRaised ==
    /\ pc \in {"except", "done"}
    /\ exports = 1
    /\ raised # "none"

\* a cell with the bytes that are not valid cp932 taken out
WithoutInvalid(cell) == SelectSeq(cell, LAMBDA ch : ch # "#")

\* C12: after a successful export every record's data row carries the
\* record's title at column index 2, its volume at column index 6 and its
\* ASIN at column index 14 (0-based), and is as wide as the header.
C12_ColumnMapping ==
    ExportSucceeded =>
        \A i \in 1..Len(edited_data) :
            /\ i + 1 <= Len(csvFile)
            /\ Len(csvFile[i + 1]) = Len(csvFile[1])
            /\ csvFile[i + 1][2 + 1] = CsvField(ItemGet(edited_data[i], "title"))
            /\ csvFile[i + 1][6 + 1] = CsvField(ItemGet(edited_data[i], "volume"))
            /\ csvFile[i + 1][14 + 1] = CsvField(ItemGet(edited_data[i], "ASIN"))

C12_Witness ==
    /\ ExportSucceeded
    /\ Len(edited_data) = 2
    /\ edited_data[1].title = Str(<<"A">>)
    /\ "volume" \in DOMAIN edited_data[2]
    /\ edited_data[2].volume = Str(<<"4">>)
    /\ csvFile[2][3] = <<"A">>
    /\ csvFile[3][7] = <<"4">>
    /\ csvFile[3][15] = <<"B", "0">>

C15_NarrowHeaderPadded ==
    (/\ pc \in {"finish", "except", "done"}
     /\ exports = 1
     /\ edited_data # <<>>
     /\ csv_path
     /\ Len(csvAtEntry) >= 1
     /\ Len(csvAtEntry[1]) < 15
     /\ \A i \in 1..Len(edited_data) :
           ItemEncodes(edited_data[i]))
    =>
        /\ raised = "none"
        /\ Len(csvFile) = Len(edited_data) + 1
        /\ \A i \in 1..Len(edited_data) :
              /\ Len(csvFile[i + 1]) >= 15
              /\ csvFile[i + 1][3] = CsvField(ItemGet(edited_data[i], "title"))
              /\ csvFile[i + 1][15] = CsvField(ItemGet(edited_data[i], "ASIN"))

\* C16: whenever input_json_convert_csv raises, the CSV file holds exactly
\* the content it had before the call.
C16_FailureLeavesFile ==
    ExportRaised => csvFile = csvAtEntry

\* ------------------------------------------------------------------------
\* Registry Reader and Row Filter
\* ------------------------------------------------------------------------
\* read_public_csv returned rows
ReadReturned ==
    /\ tried # <<>>
    /\ reg_raised = "none"
    /\ rpc \in {"returned", "save", "exit"}

\* C17: read_public_csv opens the file with utf-8-sig, utf-8, cp932,
\* shift_jis in that order, moves on only after a decode error, returns the
\* rows decoded by the first encoding that decodes the file, and raises
\* CsvReadError with no rows when none of the four does.
C17_EncodingFallback ==
    /\ Len(tried) <= 4
    /\ \A i \in 1..Len(tried) :
          tried[i] = <<"utf-8-sig", "utf-8", "cp932", "shift_jis">>[i]
    /\ \A i \in 1..(Len(tried) - 1) : ~FileDecodes(registry_csv, tried[i])
    /\ ReadReturned =>
          /\ FileDecodes(registry_csv, tried[Len(tried)])
          /\ csv_rows = DictReader(registry_csv, tried[Len(tried)])
    /\ (reg_raised = "CsvReadError" /\ file_state = "ok") =>
          /\ Len(tried) = 4
          /\ \A i \in 1..4 : ~FileDecodes(registry_csv, tried[i])
          /\ csv_rows = <<>>
    /\ (rpc \in {"raised", "returned"} /\ file_state = "ok") =>
          (reg_raised = "CsvReadError" <=>
              \A e \in {"utf-8-sig", "utf-8", "cp932", "shift_jis"} :
                  ~FileDecodes(registry_csv, e))

C17_Witness ==
    /\ rpc = "returned"
    /\ tried = <<"utf-8-sig", "utf-8", "cp932">>
    /\ Len(csv_rows) = 2
    /\ <<"soutei", "seihon">> \in DOMAIN csv_rows[1]
    /\ csv_rows[1][<<"soutei", "seihon">>] = Str(<<"Kindle", "ban">>)
    /\ csv_rows[2][<<"soutei", "seihon">>] = Str(<<"U+FF83", "U+FF69">>)

\* filter_by_binding returned
FilterReturned == rpc = "save" \/ (rpc = "exit" /\ exit_code = 0)

\* the rows handed to filter_by_binding whose binding field is in the list
Kept ==
    {i \in 1..Len(csv_rows) :
        /\ <<"soutei", "seihon">> \in DOMAIN csv_rows[i]
        /\ csv_rows[i][<<"soutei", "seihon">>] \in
              {Str(<<"Kindle", "ban">>), Str(<<"komikku">>), Str(<<"zasshi">>),
               Str(<<"oogatabon">>), Str(<<"tankoubon">>),
               Str(<<"sofutokabaa">>)}}

\* C18: filter_by_binding returns exactly the rows whose binding field is in
\* the allow-list, in their order and unmodified; a row without the column
\* or with a value outside the list is not returned; the input rows stay
\* as they were read.
C18_FilterExact ==
    FilterReturned =>
        /\ Len(filtered) = Cardinality(Kept)
        /\ \A i \in Kept : filtered[Cardinality({j \in Kept : j <= i})] = csv_rows[i]
        /\ csv_rows = DictReader(registry_csv, tried[Len(tried)])

C18_Witness ==
    /\ FilterReturned
    /\ Len(csv_rows) = 2
    /\ <<"soutei", "seihon">> \in DOMAIN csv_rows[1]
    /\ csv_rows[1][<<"soutei", "seihon">>] = None
    /\ csv_rows[2][<<"soutei", "seihon">>] = Str(<<"Kindle", "ban">>)
    /\ filtered = <<csv_rows[2]>>

\* ------------------------------------------------------------------------
\* MainApp: Start, Stop and the workflow threads
\* ------------------------------------------------------------------------
\* the workflow threads that have not yet returned from run_main_workflow
InFlight == {t \in 1..Len(threads) : threads[t] # "done"}

\* C20: at every moment at most one workflow thread is in flight; after Stop
\* is pressed during a run, Start cannot launch a second run beside it.
C20_OneThreadInFlight == Cardinality(InFlight) <= 1

\* C21: Stop does not interrupt a run in flight: the command only stops the
\* timer and toggles the two buttons, it leaves every workflow thread and
\* every file written as they are, and each thread in flight still goes on
\* to the end of run_main_workflow (by completion or by its own error)
\* unless the window is destroyed.
C21_StopDoesNotInterrupt ==
    /\ [][stop_workflow =>
            /\ threads' = threads
            /\ writes' = writes
            /\ window' = window
            /\ ~timer_running'
            /\ start_btn' = "normal"
            /\ stop_btn' = "disabled"]_vars
    /\ \A t \in 1..MaxThreads :
          (t \in InFlight) ~> (t \notin InFlight \/ window = "destroyed")

\* the only thread ever started wrote the CSV while the timer was stopped:
\* Stop had been pressed during its run
C21_Witness ==
    /\ Len(threads) = 1
    /\ threads[1] = "finish"
    /\ writes[Len(writes)] = [thread |-> 1, file |-> "csv", timer |-> FALSE]

\* ------------------------------------------------------------------------
\* vba_simulation.py: the dialog watcher and the macro attempts
\* ------------------------------------------------------------------------
\* the watcher thread has returned from monitor_and_click
WatcherEnded == dialog_thread.state = "ended"

TriedInListOrder ==
    \A i \in 1..Len(runs) :
        /\ runs[i].path = macro_attempts[(i + 1) \div 2]
        /\ runs[i].via = IF i % 2 = 1 THEN "excel" ELSE "wb"

\* a call that returned is the last one made, and OnTime is used only after
\* none returned
StopsAtFirstSuccess ==
    /\ \A i \in 1..Len(runs) : runs[i].ok => i = Len(runs)
    /\ xl.ontime # "none" =>
         /\ Len(runs) = 2 * Len(macro_attempts)
         /\ \A i \in 1..Len(runs) : ~runs[i].ok

\* no path and not OnTime worked: RuntimeError, and no output JSON
FailureRaises ==
    xl.ontime = "failed" =>
        /\ xpc \in {"finally", "done"}
        /\ xl.exc = "RuntimeError"
        /\ ~xl.json_written

\* run_excel_process is over and Excel had been started: Close without
\* saving was called on the workbook if one was opened, and Quit was called
ClosedAndQuit ==
    (xpc = "done" /\ xl.excel # "none") =>
        /\ xl.quit_called
        /\ xl.wb # "none" => xl.close_called

\* C25: the watcher is started before the first macro attempt; the paths are
\* tried in list order; the first call that returns ends the attempts, so at
\* most one call of the macro succeeds in a run; when no path and not the
\* OnTime fallback works, RuntimeError is raised and the output JSON is not
\* written; and on every path the workbook is closed without saving and
\* Excel is quit.
C25_MacroFallback ==
    /\ (xpc = "running" \/ runs # <<>>) => dialog_thread.state # "none"
    /\ TriedInListOrder
    /\ StopsAtFirstSuccess
    /\ FailureRaises
    /\ ClosedAndQuit

\* ------------------------------------------------------------------------
\* ai_connect.py: edit_json_with_openai
\* ------------------------------------------------------------------------
\* the run on the records the first run returned has ended
SecondPassEnded == pass = 2 /\ pc \in {"ai_returned", "ai_except"}

\* every record has the title it was given
TitlesKept ==
    /\ Len(edited_data) = Len(data)
    /\ \A i \in 1..Len(data) :
          DictGet(edited_data[i], "title") = DictGet(data[i], "title")

\* C23: with a model that answers the same canonical form to the same text,
\* edit_json_with_openai run on the records a previous run returned gives
\* every record the title it already had.
C23_Idempotent == SecondPassEnded => (pc = "ai_returned" /\ TitlesKept)

\* edit_json_with_openai has returned edited_data
AiReturned == pc = "ai_returned"

\* the model was called for item i
AiCalledFor(i) == \E c \in 1..Len(calls) : calls[c].index = i

\* one record per input record, in order, with every field but the title
\* and the volume as it was given; the loaded records are as the file has
\* them
AiFieldsKept ==
    /\ Len(edited_data) = Len(data)
    /\ data = JsonLoad(jsonFile)
    /\ \A i \in 1..Len(data) :
          /\ DOMAIN edited_data[i] \subseteq DOMAIN data[i] \cup {"title", "volume"}
          /\ \A key \in DOMAIN data[i] \ {"title", "volume"} :
                edited_data[i][key] = data[i][key]

\* C26 as stated: when edit_json_with_openai returns there is one record per
\* input record in the same order, every field other than the title and the
\* volume is the input's, a record whose colour flag is not true is returned
\* as it was and without a remote call, and the loaded input records are not
\* changed.
C26_ReturnedAsGiven ==
    AiReturned =>
        /\ AiFieldsKept
        /\ \A i \in 1..Len(data) :
              ~NeedsCall(data[i]) =>
                  /\ edited_data[i] = data[i]
                  /\ ~AiCalledFor(i)

\* C26, amended: as stated, except that a record whose colour flag is not
\* true keeps every field it had and, if it had no title field, gains one
\* that holds None.
C26_NormalizerFrame ==
    AiReturned =>
        /\ AiFieldsKept
        /\ \A i \in 1..Len(data) :
              ~NeedsCall(data[i]) =>
                  /\ DOMAIN edited_data[i] = DOMAIN data[i] \cup {"title"}
                  /\ \A key \in DOMAIN data[i] : edited_data[i][key] = data[i][key]
                  /\ "title" \notin DOMAIN data[i] => edited_data[i].title = None
                  /\ ~AiCalledFor(i)

\* returned for a record without colour flag and title and a record the
\* model was called for
C26_Witness ==
    /\ AiReturned
    /\ Len(data) = 2
    /\ ~NeedsCall(data[1])
    /\ "title" \notin DOMAIN data[1]
    /\ NeedsCall(data[2])
    /\ edited_data[2].title # data[2].title

\* ------------------------------------------------------------------------
\* run_main_workflow: the order of the steps and the report
\* ------------------------------------------------------------------------
\* every extracted record went through the loop of edit_json_with_openai and
\* every remote call made was answered with at least two lines
AllNormalized ==
    /\ jsonFile = JsonDump(results)
    /\ data = JsonLoad(jsonFile)
    /\ Len(edited_data) = Len(results)
    /\ \A c \in 1..Len(calls) :
          /\ calls[c].answer.t = "str"
          /\ WellFormed(ResponseLines(calls[c].answer.v))

\* the window as it is when no run is going on
GuiIdle == ~timer_running /\ start_btn = "normal" /\ stop_btn = "disabled"

\* C24: the steps of a run come in the order extraction, intermediate JSON
\* written, normalization of every record, export: normalization starts
\* only with the extracted records persisted, the export is entered only
\* after every record was normalized without error, "completed" is reported
\* only when no step raised, and an exception of any step ends the run with
\* an error report; a run that is over leaves the timer stopped, Start
\* enabled and Stop disabled.
C24_StepsInOrder ==
    /\ pc \in {"edit", "loop"} => (jsonFile = JsonDump(results) /\ exports = 0)
    /\ (pc \in {"export", "finish"} \/ exports > 0) => AllNormalized
    /\ exports <= 1
    /\ raised # "none" => (pc \in {"except", "done"} /\ report # "completed")
    /\ report = "completed" =>
         (raised = "none" /\ AllNormalized /\ exports = 1 /\ pc = "done")
    /\ report = "error" => (raised # "none" /\ pc = "done")
    /\ pc = "done" => (report \in {"completed", "error"} /\ GuiIdle)
    /\ pc # "done" => (report = "none" /\ timer_running /\ stop_btn = "normal")

\* extraction and normalization went through, the export raised, and the
\* run ended with the error report and the window idle
C24_Witness ==
    /\ pc = "done"
    /\ report = "error"
    /\ exports = 1
    /\ Len(results) = 2
    /\ Len(calls) >= 1
    /\ GuiIdle

====
